---- MODULE Spec2Model ----
(***************************************************************************)
(* A model of sat-python (src/core): the FY4A / FY4B / Himawari-8 level-1  *)
(* readers.  Four parts:                                                   *)
(*   navigation   lc2latlon (FY4A.py, lc2latlon.py, Himawari8.py)          *)
(*   calibration  the calibrate() methods, himawari8_hsd.calibrate_data    *)
(*   decoder      himawari8_hsd.read_binfile, one loop iteration per step  *)
(*   datasets     construction (__init__), __getitem__, read_data          *)
(*                                                                         *)
(* Numbers.  TLC has 32-bit integers only, so the floating-point code is   *)
(* computed in fixed point:                                                *)
(*   degrees            in units of 1/LonScale degree                      *)
(*   scan angles        in micro-radians                                   *)
(*   sin, cos, ratios   in units of 1/TrigScale                            *)
(*   lengths            in km                                              *)
(* A float that may be NaN is a record [nan, v]; every comparison with NaN *)
(* is false, as in IEEE arithmetic.                                        *)
(***************************************************************************)
EXTENDS Integers, Sequences, FiniteSets, TLC

VARIABLES
    navIn,      \* arguments of the last navigation call
    navOut,     \* what it returned (or the exception it raised)
    dec,        \* himawari8_hsd.read_binfile: its arguments, locals and outcome
    calIn,      \* the datasets the last calibrate() call read
    calOut,     \* what it returned (or the exception it raised)
    metaIn,     \* the class and the container of a single construction
    metaOut,    \* the instance it made (or the exception it raised)
    cls,        \* the dataset class the program instantiates
    objs,       \* the instances the program holds, by the name bound to them
    fy4_L1_data, \* the class attribute fy4_L1.data (FY4A.py:95), one dict
    last        \* the last operation on an instance and its outcome

navVars == <<navIn, navOut>>
calVars == <<calIn, calOut>>
metaVars == <<metaIn, metaOut>>
dsVars == <<cls, objs, fy4_L1_data, last>>
vars == <<navIn, navOut, dec, calIn, calOut, metaIn, metaOut, cls, objs,
          fy4_L1_data, last>>

None == [none |-> TRUE]

(* body(v): a value that is used more than once is bound once *)
With(v, body(_)) == CHOOSE r \in {body(x) : x \in {v}} : TRUE
NoCall == [status |-> "idle"]   \* read_binfile has not been called
Instances == {"A", "B"}

(* no dataset has been constructed *)
NoDatasets ==
    /\ cls = "none"
    /\ objs = [i \in Instances |-> None]
    /\ fy4_L1_data = <<>>
    /\ last = None
NoMetadata == metaIn = None /\ metaOut = None

(***************************************************************************)
(* Floating-point values                                                   *)
(***************************************************************************)
NaN == [nan |-> TRUE, v |-> 0]
Num(v) == [nan |-> FALSE, v |-> v]
IsNaN(f) == f.nan

LonScale == 10000       \* model units per degree
TrigScale == 10000      \* model units per 1.0 for sin, cos and ratios
MicroRadPerDeg == 17453 \* pi / 180, in micro-radians

Abs(n) == IF n < 0 THEN -n ELSE n

(* numpy.sqrt on a non-negative integer radicand, rounded down *)
RECURSIVE SqrtBetween(_, _, _)
SqrtBetween(n, lo, hi) ==
    IF lo >= hi THEN lo
    ELSE LET mid == (lo + hi + 1) \div 2
         IN  IF mid * mid <= n THEN SqrtBetween(n, mid, hi)
                               ELSE SqrtBetween(n, lo, mid - 1)
sqrt(n) == SqrtBetween(n, 0, 46340)

(* numpy.cos / numpy.sin of an angle in micro-radians (Taylor series, the  *)
(* scan angles of a geostationary imager stay below 0.2 rad)               *)
cos(xu) ==
    LET x5 == xu \div 10
        x2 == (x5 * x5) \div 10000
        x4 == (x2 * x2) \div 1000000
    IN  (1000000 - (x2 \div 2) + (x4 \div 24)) \div 100

sin(xu) ==
    LET x5 == xu \div 10
        x2 == (x5 * x5) \div 10000
        x3 == (x2 * x5) \div 100000
    IN  (xu - (x3 \div 6)) \div 100

(* 180 / pi * numpy.arctan(n / d) for d > 0, in 1/LonScale degrees; the    *)
(* result of arctan always lies in [-90, 90] degrees                       *)
RECURSIVE arctanCenti(_, _)
arctanCenti(n, d) ==
    IF n < 0 THEN -arctanCenti(-n, d)
    ELSE IF n > d THEN 9000 - arctanCenti(d, n)
    ELSE LET t == (n * TrigScale) \div d
         IN  ((4500 * t) \div TrigScale)
             + ((((t * (TrigScale - t)) \div TrigScale)
                 * (1402 + ((380 * t) \div TrigScale))) \div TrigScale)
arctanDeg(n, d) == arctanCenti(n, d) * (LonScale \div 100)

(***************************************************************************)
(* Navigation: (column, line) -> (lon, lat)                                *)
(*                                                                         *)
(* Projection parameters p: COFF2, LOFF2 (twice the offsets, which are     *)
(* half-integers), CFAC, LFAC, h, ea, eb (km) and sub_lon.                 *)
(***************************************************************************)
ScanAngle(index, off2, fac) ==
    LET F == (MicroRadPerDeg * 32768) \div (fac \div 1000)
    IN  (((2 * index) - off2) * F) \div 1000

(* np.array(v, dtype=np.float32) on the integer grain: values below 2^24   *)
(* are kept, larger ones are rounded to a 24-bit significand (ties to even)*)
RECURSIVE Ulp(_)
Ulp(a) == IF a < 16777216 THEN 1 ELSE 2 * Ulp(a \div 2)
Float32(f) ==
    IF IsNaN(f) THEN f
    ELSE LET a == Abs(f.v)
             u == Ulp(a)
             lo == (a \div u) * u
             r == a - lo
             up == IF (2 * r > u) \/ ((2 * r = u) /\ ((lo \div u) % 2 = 1))
                   THEN lo + u ELSE lo
         IN  Num(IF f.v < 0 THEN -up ELSE up)

(* np.where(lon > 180, lon - 360, lon): the only fold the code applies *)
FoldLon(lon) ==
    IF ~IsNaN(lon) /\ lon.v > 180 * LonScale
    THEN Num(lon.v - (360 * LonScale))
    ELSE lon

(* the navigation with the radicand of sd clamped at zero: an off-earth    *)
(* pixel gets the coordinates of the limb instead of NaN                   *)
Geolocate_ClampedRadicand(col, row, p) ==
    LET x == ScanAngle(col, p.COFF2, p.CFAC)
        y == ScanAngle(row, p.LOFF2, p.LFAC)
        h == p.h
        ea2 == p.ea * p.ea
        ratio == ea2 \div ((p.eb * p.eb) \div TrigScale)
        hcc == (((h * cos(x)) \div TrigScale) * cos(y)) \div TrigScale
        denom == ((cos(y) * cos(y)) \div TrigScale)
                 + ((ratio * ((sin(y) * sin(y)) \div TrigScale)) \div TrigScale)
        diff == (hcc * hcc) - ((((h * h) - ea2) \div TrigScale) * denom)
        radicand == IF diff < 0 THEN 0 ELSE diff
        sd == sqrt(radicand)
        sn == ((hcc - sd) * TrigScale) \div denom
        S1 == h - ((((sn * cos(x)) \div TrigScale) * cos(y)) \div TrigScale)
        S2 == (((sn * sin(x)) \div TrigScale) * cos(y)) \div TrigScale
        S3 == -((sn * sin(y)) \div TrigScale)
        Sxy == sqrt((S1 * S1) + (S2 * S2))
        lon == arctanDeg(S2, S1) + p.sub_lon
        lat == arctanDeg((ratio * S3) \div TrigScale, Sxy)
    IN  [lon |-> FoldLon(Float32(Num(lon))), lat |-> Float32(Num(lat))]

(* the body shared, line for line, by the three lc2latlon functions *)
Geolocate(col, row, p) ==
    LET x == ScanAngle(col, p.COFF2, p.CFAC)
        y == ScanAngle(row, p.LOFF2, p.LFAC)
        h == p.h
        ea2 == p.ea * p.ea
        ratio == ea2 \div ((p.eb * p.eb) \div TrigScale)
        hcc == (((h * cos(x)) \div TrigScale) * cos(y)) \div TrigScale
        denom == ((cos(y) * cos(y)) \div TrigScale)
                 + ((ratio * ((sin(y) * sin(y)) \div TrigScale)) \div TrigScale)
        radicand == (hcc * hcc) - ((((h * h) - ea2) \div TrigScale) * denom)
    IN  IF radicand < 0
        THEN [lon |-> NaN, lat |-> NaN]     \* sqrt of a negative number
        ELSE
          LET sd == sqrt(radicand)
              sn == ((hcc - sd) * TrigScale) \div denom
              S1 == h - ((((sn * cos(x)) \div TrigScale) * cos(y)) \div TrigScale)
              S2 == (((sn * sin(x)) \div TrigScale) * cos(y)) \div TrigScale
              S3 == -((sn * sin(y)) \div TrigScale)
              Sxy == sqrt((S1 * S1) + (S2 * S2))
              lon == arctanDeg(S2, S1) + p.sub_lon
              lat == arctanDeg((ratio * S3) \div TrigScale, Sxy)
          IN  [lon |-> FoldLon(Float32(Num(lon))), lat |-> Float32(Num(lat))]

ResScale == 1000        \* model units per metre of spatial resolution

(* the resolution -> (COFF, CFAC, LOFF, LFAC) table of FY4A.lc2latlon      *)
(* (FY4A.py:32-58), twice the half-integer offsets; None is the else       *)
(* branch (ValueError)                                                     *)
FY4Constants(resolution) ==
    IF resolution = 250 * ResScale
    THEN [COFF2 |-> 43967, CFAC |-> 163730199, LOFF2 |-> 43967, LFAC |-> 163730199]
    ELSE IF resolution = 500 * ResScale
    THEN [COFF2 |-> 21983, CFAC |-> 81865099, LOFF2 |-> 21983, LFAC |-> 81865099]
    ELSE IF resolution = 1000 * ResScale
    THEN [COFF2 |-> 10991, CFAC |-> 40932549, LOFF2 |-> 10991, LFAC |-> 40932549]
    ELSE IF resolution = 2000 * ResScale
    THEN [COFF2 |-> 5495, CFAC |-> 20466274, LOFF2 |-> 5495, LFAC |-> 20466274]
    ELSE IF resolution = 4000 * ResScale
    THEN [COFF2 |-> 2747, CFAC |-> 10233137, LOFF2 |-> 2747, LFAC |-> 10233137]
    ELSE None

NOMSatHeight == 42164   \* km, earth centre to satellite
EarthEa == 6378         \* km, 6378.137 on the km grain
EarthEb == 6357         \* km, 6356.7523 on the km grain

Raised(kind) == [exc |-> kind]
Returned(v) == [exc |-> "none", value |-> v]

(* FY4A.lc2latlon(x, y, resolution, lambda_d, h) for one pixel *)
FY4A_lc2latlon(x, y, resolution, lambda_d, h) ==
    LET c == FY4Constants(resolution)
    IN  IF c = None THEN Raised("ValueError")
        ELSE Returned(Geolocate(x, y,
                 [COFF2 |-> c.COFF2, CFAC |-> c.CFAC, LOFF2 |-> c.LOFF2,
                  LFAC |-> c.LFAC, h |-> h, ea |-> EarthEa, eb |-> EarthEb,
                  sub_lon |-> lambda_d]))

(* dict.update: the keys of b override those of a *)
Update(a, b) == b @@ a

default_parameters == [h |-> NOMSatHeight, ea |-> EarthEa, eb |-> EarthEb]

ProjectionKeys == {"COFF2", "CFAC", "LOFF2", "LFAC", "sub_lon"}

(* the table with an else branch that falls back to the 4000 m constants *)
ResolutionParameters_Fallback(resolution) ==
    IF resolution = 250 * ResScale
    THEN [COFF2 |-> 43967, CFAC |-> 163730199, LOFF2 |-> 43967, LFAC |-> 163730199]
    ELSE IF resolution = 500 * ResScale
    THEN [COFF2 |-> 21983, CFAC |-> 81865099, LOFF2 |-> 21983, LFAC |-> 81865099]
    ELSE IF resolution = 1000 * ResScale
    THEN [COFF2 |-> 10991, CFAC |-> 40932549, LOFF2 |-> 10991, LFAC |-> 40932549]
    ELSE IF resolution = 2000 * ResScale
    THEN [COFF2 |-> 5495, CFAC |-> 20466274, LOFF2 |-> 5495, LFAC |-> 20466274]
    ELSE IF resolution = 4000 * ResScale
    THEN [COFF2 |-> 2747, CFAC |-> 10233137, LOFF2 |-> 2747, LFAC |-> 10233137]
    ELSE [COFF2 |-> 2747, CFAC |-> 10233137, LOFF2 |-> 2747, LFAC |-> 10233137]

(* the resolution table of lc2latlon.lc2latlon (lc2latlon.py:51-77), twice *)
(* the half-integer offsets; None is the else branch (ValueError)          *)
ResolutionParameters(resolution) ==
    IF resolution = 250 * ResScale
    THEN [COFF2 |-> 43967, CFAC |-> 163730199, LOFF2 |-> 43967, LFAC |-> 163730199]
    ELSE IF resolution = 500 * ResScale
    THEN [COFF2 |-> 21983, CFAC |-> 81865099, LOFF2 |-> 21983, LFAC |-> 81865099]
    ELSE IF resolution = 1000 * ResScale
    THEN [COFF2 |-> 10991, CFAC |-> 40932549, LOFF2 |-> 10991, LFAC |-> 40932549]
    ELSE IF resolution = 2000 * ResScale
    THEN [COFF2 |-> 5495, CFAC |-> 20466274, LOFF2 |-> 5495, LFAC |-> 20466274]
    ELSE IF resolution = 4000 * ResScale
    THEN [COFF2 |-> 2747, CFAC |-> 10233137, LOFF2 |-> 2747, LFAC |-> 10233137]
    ELSE None

(* lc2latlon.lc2latlon(x, y, sat, **kwargs) for one pixel *)
lc2latlon(x, y, sat, kwargs) ==
    LET merged == Update(default_parameters, kwargs)
        fy4 == (sat = "FY4") /\ ("resolution" \in DOMAIN kwargs)
        c == IF fy4 THEN ResolutionParameters(kwargs["resolution"]) ELSE None
        params == IF fy4 /\ c # None THEN Update(merged, c) ELSE merged
    IN  IF fy4 /\ c = None THEN Raised("ValueError")
        ELSE IF ~(ProjectionKeys \subseteq DOMAIN params) THEN Raised("KeyError")
        ELSE Returned(Geolocate(x, y, params))

(* Himawari8.lc2latlon_himawari8(x, y, **kwargs) for one pixel *)
lc2latlon_himawari8(x, y, kwargs) ==
    LET params == Update(default_parameters, kwargs)
    IN  IF ~(ProjectionKeys \subseteq DOMAIN params) THEN Raised("KeyError")
        ELSE Returned(Geolocate(x, y, params))

(***************************************************************************)
(* Specification SpecNav: calls of the three navigation functions          *)
(***************************************************************************)
NavSteps == 6           \* the nominal grid is sampled at NavSteps + 1 points per axis

NavResolutions == {250, 500, 1000, 2000, 4000, 3000}
NavSubLons == {-1700000, -999000, 0, 1047000, 1407000}
HimawariProj ==
    [CFAC |-> 40932549, LFAC |-> 40932549, COFF2 |-> 11001, LOFF2 |-> 11001]

GridSample(k, off2) == (k * off2) \div NavSteps

NavInit ==
    /\ navIn \in
         { [fn |-> fn, i |-> i, j |-> j, resolution |-> r, sub_lon |-> sl] :
             fn \in {"FY4A.lc2latlon", "lc2latlon.lc2latlon", "lc2latlon_himawari8"},
             r \in NavResolutions, sl \in NavSubLons,
             i \in 0..NavSteps, j \in 0..NavSteps }
    /\ navOut = None
    /\ dec = NoCall
    /\ calIn = None
    /\ calOut = None
    /\ NoMetadata
    /\ NoDatasets

(* twice the offset of the grid the call samples *)
NavOff2(in) ==
    IF in.fn = "lc2latlon_himawari8" THEN HimawariProj.COFF2
    ELSE LET c == FY4Constants(in.resolution * ResScale)
         IN  IF c = None THEN 2747 ELSE c.COFF2
NavX(in) == GridSample(in.i, NavOff2(in))
NavY(in) == GridSample(in.j, NavOff2(in))

NavFY4A ==
    /\ navOut = None
    /\ navIn.fn = "FY4A.lc2latlon"
    /\ navOut' = FY4A_lc2latlon(NavX(navIn), NavY(navIn),
                     navIn.resolution * ResScale, navIn.sub_lon, NOMSatHeight)
    /\ UNCHANGED <<navIn, dec, calVars, metaVars, dsVars>>

NavShared ==
    /\ navOut = None
    /\ navIn.fn = "lc2latlon.lc2latlon"
    /\ navOut' = lc2latlon(NavX(navIn), NavY(navIn), "FY4",
                     [resolution |-> navIn.resolution * ResScale,
                      sub_lon |-> navIn.sub_lon])
    /\ UNCHANGED <<navIn, dec, calVars, metaVars, dsVars>>

NavHimawari ==
    /\ navOut = None
    /\ navIn.fn = "lc2latlon_himawari8"
    /\ navOut' = lc2latlon_himawari8(NavX(navIn), NavY(navIn),
                     Update(HimawariProj, [sub_lon |-> navIn.sub_lon]))
    /\ UNCHANGED <<navIn, dec, calVars, metaVars, dsVars>>

NavNext == NavFY4A \/ NavShared \/ NavHimawari

SpecNav == NavInit /\ [][NavNext]_vars

(* C1: every longitude the navigation functions return for a pixel of the  *)
(* nominal grid lies in (-180, 180] and every latitude in [-90, 90] (NaN,  *)
(* the off-earth value, aside); a longitude below -180 is folded back.     *)
C1_LonLatInRange ==
    (navOut # None /\ navOut.exc = "none" /\ ~IsNaN(navOut.value.lon)) =>
        /\ navOut.value.lon.v > -180 * LonScale
        /\ navOut.value.lon.v <= 180 * LonScale
        /\ Abs(navOut.value.lat.v) <= 90 * LonScale


(***************************************************************************)
(* Binary decoder: himawari8_hsd.read_binfile (Himawari8.py:181-243)       *)
(*                                                                         *)
(* info is the byte buffer (a sequence of 0..255), formation_band the      *)
(* schema: a sequence of <<name, dtype, byte_nums>>.  One DecStep step    *)
(* is one iteration of the for loop.  Scalar arithmetic is that of the     *)
(* NumPy 1.x line the code was written for: a uint16 scalar minus a Python *)
(* int is a signed 64-bit integer.                                         *)
(***************************************************************************)
block_names ==
    <<"Basic information", "Data information", "Projection information",
      "Navigation information", "Calibration information",
      "Inter-calibration information", "Segment information",
      "Navigation correction information", "Observation time information",
      "Error information", "Spare", "Data">>

PixelField == "Count value of each pixel"

(* name.startswith('Block number') / name.startswith('Block length') *)
StartsWithBlockNumber(name) == name \in {"Block number", "Block number_2"}
StartsWithBlockLength(name) == name \in {"Block length", "Block length_2"}

Min(a, b) == IF a < b THEN a ELSE b
Max(a, b) == IF a > b THEN a ELSE b

(* Python's s[a:b]: negative indices count from the end, both are clamped  *)
(* to the sequence, and a slice past the end is silently shortened         *)
Slice(s, a, b) ==
    LET n == Len(s)
        lo == IF a < 0 THEN Max(a + n, 0) ELSE Min(a, n)
        hi == IF b < 0 THEN Max(b + n, 0) ELSE Min(b, n)
    IN  IF lo < hi THEN SubSeq(s, lo + 1, hi) ELSE <<>>

ItemSize(dtp) ==
    CASE dtp = "uint8" -> 1
      [] dtp = "uint16" -> 2
      [] dtp = "uint32" -> 4
      [] dtp = "float32" -> 4
      [] dtp = "float64" -> 8

(* one element of np.frombuffer: a little-endian unsigned integer; the     *)
(* buffers of the model hold a float field as the little-endian integer of *)
(* its value in the model's fixed-point units                              *)
RECURSIVE LittleEndian(_)
LittleEndian(bytes) ==
    IF bytes = <<>> THEN 0 ELSE Head(bytes) + (256 * LittleEndian(Tail(bytes)))
Element(bytes, dtp) == LittleEndian(bytes)

(* np.frombuffer(buf, dtype=dtp): ValueError unless the buffer is a whole  *)
(* number of elements; an empty buffer gives an empty array                *)
frombuffer(buf, dtp) ==
    LET size == ItemSize(dtp)
    IN  IF Len(buf) % size # 0 THEN Raised("ValueError")
        ELSE Returned([k \in 1..(Len(buf) \div size) |->
                         Element(SubSeq(buf, ((k - 1) * size) + 1, k * size), dtp)])

(* np.char.decode(buf, encoding='ascii'): one string, UnicodeDecodeError   *)
(* on a byte above 127                                                     *)
char_decode(buf) ==
    IF \E k \in 1..Len(buf) : buf[k] > 127 THEN Raised("UnicodeDecodeError")
    ELSE Returned([text |-> buf])

(* the chain with an else branch that skips the field instead of raising *)
TypeCode_SkipUnknown(dtype, byte_nums, dtp) ==
    CASE dtype = "i1" -> [length |-> 1 * byte_nums, dtp |-> "uint8"]
      [] dtype = "i2" -> [length |-> 2 * byte_nums, dtp |-> "uint16"]
      [] dtype = "i4" -> [length |-> 4 * byte_nums, dtp |-> "uint32"]
      [] dtype = "C"  -> [length |-> 1 * byte_nums, dtp |-> dtp]
      [] dtype = "R4" -> [length |-> 4 * byte_nums, dtp |-> "float32"]
      [] dtype = "R8" -> [length |-> 8 * byte_nums, dtp |-> "float64"]
      [] dtype = ""   -> [length |-> byte_nums * 40, dtp |-> dtp]
      [] OTHER -> [length |-> 0, dtp |-> dtp]

(* the if/elif chain on the type code: the byte length and the new dtp     *)
(* (dtp keeps its previous value for 'C' and ''); None is the bare raise   *)
TypeCode(dtype, byte_nums, dtp) ==
    CASE dtype = "i1" -> [length |-> 1 * byte_nums, dtp |-> "uint8"]
      [] dtype = "i2" -> [length |-> 2 * byte_nums, dtp |-> "uint16"]
      [] dtype = "i4" -> [length |-> 4 * byte_nums, dtp |-> "uint32"]
      [] dtype = "C"  -> [length |-> 1 * byte_nums, dtp |-> dtp]
      [] dtype = "R4" -> [length |-> 4 * byte_nums, dtp |-> "float32"]
      [] dtype = "R8" -> [length |-> 8 * byte_nums, dtp |-> "float64"]
      [] dtype = ""   -> [length |-> byte_nums * 40, dtp |-> dtp]
      [] OTHER -> None

(* d with the call ended by an exception *)
Fail(d, kind) == [d EXCEPT !.status = "failed", !.exc = kind]

(* block[name] = value; the dict may already be stored in fileinfo (under  *)
(* d.stored), and then the stored block is the same object                 *)
SetBlockItem(d, name, value) ==
    LET b == Update(d.block, [n \in {name} |-> value])
    IN  [d EXCEPT !.block = b,
                  !.fileinfo = IF d.stored = "" THEN @
                               ELSE Update(@, [n \in {d.stored} |-> b])]

(* info[pos:pos+length], and whether it came back shorter than asked for   *)
ReadBytes(d, length) == Slice(d.info, d.pos, d.pos + length)
IsShort(d, length) == Len(ReadBytes(d, length)) < length

(* lines 225-230: the padding pseudo-field *)
SkipPadding(d) ==
    IF d.block = None THEN Fail(d, "UnboundLocalError")
    ELSE IF d.block_index > 11 THEN Fail(d, "IndexError")
    ELSE LET key == IF d.block_index = -1 THEN "Data"
                    ELSE block_names[d.block_index + 1]
             pos == IF IsNaN(d.block_length) THEN d.pos
                    ELSE d.pos + (d.block_length.v - d.block_count)
         IN  [d EXCEPT !.pos = pos,
                       !.pos_nan = @ \/ IsNaN(d.block_length),
                       !.block_count = 0,
                       !.fileinfo = Update(@, [n \in {key} |-> d.block]),
                       !.stored = key,
                       !.short = @ \/ (pos > Len(d.info)),
                       !.fm = @ + 1]

(* lines 231-241: a text field or a numeric field *)
ReadField(d, name, dtype, length) ==
    IF d.pos_nan THEN Fail(d, "TypeError")
    ELSE IF dtype # "C" /\ d.dtp = "unbound" THEN Fail(d, "UnboundLocalError")
    ELSE
      LET r == IF dtype = "C" THEN char_decode(ReadBytes(d, length))
                              ELSE frombuffer(ReadBytes(d, length), d.dtp)
      IN  IF r.exc # "none" THEN Fail(d, r.exc)
          ELSE IF d.block = None THEN Fail(d, "UnboundLocalError")
          ELSE IF dtype # "C" /\ StartsWithBlockLength(name)
                  /\ Len(r.value) = 0 THEN
               Fail(SetBlockItem(d, name, r.value), "IndexError")
          ELSE
            LET d1 == SetBlockItem(d, name, r.value)
            IN  [d1 EXCEPT !.block_length =
                               IF dtype # "C" /\ StartsWithBlockLength(name)
                               THEN Num(r.value[1]) ELSE @,
                           !.short = @ \/ IsShort(d, length),
                           !.pos = @ + length,
                           !.block_count = @ + length,
                           !.fm = @ + 1]

(* lines 218-223: the pixel array, sized by the selected area and band *)
ReadPixels(d, name) ==
    LET length == (d.EW_size * d.NS_size) * 2
    IN  IF d.dtp = "unbound" THEN Fail(d, "UnboundLocalError")
        ELSE IF d.pos_nan THEN Fail(d, "TypeError")
        ELSE LET r == frombuffer(ReadBytes(d, length), d.dtp)
             IN  IF r.exc # "none" THEN Fail(d, r.exc)
                 ELSE [d EXCEPT !.fileinfo =
                           Update(@, [n \in {"Data"} |->
                                        [m \in {name} |-> r.value]]),
                           !.stored = IF @ = "Data" THEN "" ELSE @,
                           !.short = @ \/ IsShort(d, length)]

(* one iteration of the for loop over formation_band (lines 188-241) *)
DecodeEntry(d) ==
    LET entry == d.formation_band[d.fm]
        name == entry[1]
        dtype == entry[2]
        byte_nums == entry[3]
        t == TypeCode(dtype, byte_nums, d.dtp)
    IN  IF t = None THEN Fail(d, "RuntimeError")
        ELSE
          LET d1 == [d EXCEPT !.dtp = t.dtp]
              d2 == IF StartsWithBlockNumber(name)
                    THEN [d1 EXCEPT !.block = << >>, !.stored = "",
                                    !.block_index = @ + 1]
                    ELSE d1
              d3 == IF name = PixelField THEN ReadPixels(d2, name) ELSE d2
              length == IF name = PixelField
                        THEN (d.EW_size * d.NS_size) * 2 ELSE t.length
          IN  IF d3.status = "failed" THEN d3
              ELSE IF dtype = "" THEN SkipPadding(d3)
              ELSE ReadField(d3, name, dtype, length)

(* lines 181-187: the locals before the loop *)
DecodeBegin(info, formation_band, EW_size, NS_size) ==
    [status |-> "running", exc |-> "none",
     info |-> info, formation_band |-> formation_band,
     EW_size |-> EW_size, NS_size |-> NS_size,
     fm |-> 1, pos |-> 0, pos_nan |-> FALSE,
     block_length |-> NaN, block_count |-> 0, block_index |-> -1,
     block |-> None, stored |-> "", dtp |-> "unbound",
     fileinfo |-> << >>,
     short |-> FALSE]    \* history: some read or skip ran past the buffer's end


(***************************************************************************)
(* Specification SpecDec: read_binfile on synthetic schemas and buffers    *)
(***************************************************************************)
MaxPad == 2             \* the longest padding a block of the buffers declares
MaxSize == 2            \* the largest East-west / North-south size

HeaderBytes == 1 + 2 + 2    \* bytes the fields of a synthetic block consume

BlockA ==
    << <<"Block number", "i1", 1>>, <<"Block length", "i2", 1>>,
       <<"Total number of header blocks", "i2", 1>>, <<"Spare", "", 1>> >>
BlockB ==
    << <<"Block number", "i1", 1>>, <<"Block length", "i2", 1>>,
       <<"Satellite name", "C", 2>>, <<"Spare", "", 1>> >>
PixelEntry == << <<PixelField, "i2", 1>> >>

Schemas == {BlockA \o PixelEntry, BlockA \o BlockB \o PixelEntry}

DeclaredLengths == {0} \cup ((HeaderBytes - 1)..(HeaderBytes + MaxPad))

Zeros(n) == [k \in 1..n |-> 0]

(* the bytes of one block: number, declared length (little-endian), two    *)
(* field bytes, then the padding up to the declared length                 *)
BlockBytes(number, declared) ==
    <<number, declared, 0, 65 + number, 66>>
        \o Zeros(Max(declared - HeaderBytes, 0))

PixelBytes(n) == [k \in 1..(2 * n) |-> IF k % 2 = 1 THEN 10 + ((k + 1) \div 2) ELSE 0]

Buffers(schema, EW_size, NS_size) ==
    { Slice(full, 0, n) :
        full \in { IF Len(schema) > 5
                   THEN BlockBytes(1, l1) \o BlockBytes(2, l2)
                            \o PixelBytes(EW_size * NS_size)
                   ELSE BlockBytes(1, l1) \o PixelBytes(EW_size * NS_size) :
                   l1 \in DeclaredLengths, l2 \in DeclaredLengths },
        n \in 0..((2 * (HeaderBytes + MaxPad)) + (2 * MaxSize * MaxSize)) }

Idle(d) == d.status = "idle"

DecInit ==
    /\ navIn = None
    /\ navOut = None
    /\ dec = NoCall
    /\ calIn = None
    /\ calOut = None
    /\ NoMetadata
    /\ NoDatasets

(* read_binfile is called *)
DecStart ==
    /\ Idle(dec)
    /\ \E schema \in Schemas, EW_size \in 1..MaxSize, NS_size \in 1..MaxSize :
         \E info \in Buffers(schema, EW_size, NS_size) :
            dec' = DecodeBegin(info, schema, EW_size, NS_size)
    /\ UNCHANGED <<navVars, calVars, metaVars, dsVars>>

(* one iteration of the loop *)
DecStep ==
    /\ ~Idle(dec)
    /\ dec.status = "running"
    /\ dec.fm <= Len(dec.formation_band)
    /\ dec' = DecodeEntry(dec)
    /\ UNCHANGED <<navVars, calVars, metaVars, dsVars>>

(* return fileinfo *)
DecReturn ==
    /\ ~Idle(dec)
    /\ dec.fm > Len(dec.formation_band)
    /\ dec' = [dec EXCEPT !.status = "done"]
    /\ UNCHANGED <<navVars, calVars, metaVars, dsVars>>

DecNext == DecStart \/ DecStep \/ DecReturn

SpecDec == DecInit /\ [][DecNext]_vars


RECURSIVE DeclaredTotal(_, _)
(* the sum of the 'Block length' values of the blocks keys of fileinfo *)
DeclaredTotal(fileinfo, keys) ==
    IF keys = {} THEN 0
    ELSE LET k == CHOOSE k \in keys : TRUE
         IN  fileinfo[k]["Block length"][1] + DeclaredTotal(fileinfo, keys \ {k})

IsPadding(d) == d.formation_band[d.fm][2] = ""

(* C3: the padding field moves the cursor by exactly (declared block       *)
(* length - bytes consumed in the block) and resets the per-block counter, *)
(* so each block starts at the sum of the declared lengths of the blocks   *)
(* before it; and no step of the decoder moves the cursor backward.        *)
C3_PaddingSkip ==
    [][(dec.status = "running" /\ dec.fm <= Len(dec.formation_band)
            /\ dec'.status = "running") =>
         /\ IsPadding(dec) =>
              /\ dec'.pos = dec.pos + (dec.block_length.v - dec.block_count)
              /\ dec'.block_count = 0
         /\ StartsWithBlockNumber(dec'.formation_band[Min(dec'.fm, Len(dec'.formation_band))][1])
              /\ dec'.fm <= Len(dec'.formation_band) =>
              dec'.pos = DeclaredTotal(dec'.fileinfo, DOMAIN dec'.fileinfo)
         /\ dec'.pos >= dec.pos]_vars

(* C4: a call that read or skipped past the end of the buffer does not     *)
(* return: it fails, and no result holds a shortened or empty array.       *)
C4_NoShortResult ==
    (dec.status = "done") => ~dec.short


(***************************************************************************)
(* Lookup-substitution calibration: the body of FY4B agri.calibrate        *)
(* (FY4B.py:101-121) and of fy4a_giirs.calibrate (FY4A.py:290-310).        *)
(*                                                                         *)
(* A channel c holds the raw counts nom (a sequence of naturals), the      *)
(* table cal (a sequence of floats), both valid ranges and fill values.    *)
(***************************************************************************)
(* int(cal_min - 10): the sentinel the table's fill entries are set to *)
Sentinel(c) == c.cal_min - 10

(* (nom >= nom_min) & (nom <= nom_max) & (nom != nom_fill_value) *)
nom_mask(c) ==
    [i \in 1..Len(c.nom) |->
        c.nom[i] >= c.nom_min /\ c.nom[i] <= c.nom_max /\ c.nom[i] # c.nom_fill_value]

(* (cal >= cal_min) | (cal <= cal_max): false for a NaN entry only *)
cal_mask(c) ==
    [k \in 1..Len(c.cal) |->
        ~IsNaN(c.cal[k]) /\ (c.cal[k].v >= c.cal_min \/ c.cal[k].v <= c.cal_max)]

(* cal_channel[cal_channel == cal_fill_value] = int(cal_min - 10) *)
FillToSentinel(c) ==
    [k \in 1..Len(c.cal) |->
        IF ~IsNaN(c.cal[k]) /\ c.cal[k].v = c.cal_fill_value
        THEN Num(Sentinel(c)) ELSE c.cal[k]]

(* a[mask]: the elements of a where mask is true, in order *)
RECURSIVE Compress(_, _)
Compress(a, mask) ==
    IF a = <<>> THEN <<>>
    ELSE IF Head(mask) THEN <<Head(a)>> \o Compress(Tail(a), Tail(mask))
    ELSE Compress(Tail(a), Tail(mask))

LookupSubstitution(c) ==
    LET mask == nom_mask(c)
        table == Compress(FillToSentinel(c), cal_mask(c))
    IN  IF \E i \in 1..Len(c.nom) : mask[i] /\ c.nom[i] >= Len(table)
        THEN Raised("IndexError")
        ELSE Returned(
          [i \in 1..Len(c.nom) |->
             LET gathered == IF mask[i] THEN Float32(table[c.nom[i] + 1])
                             ELSE Num(0)
             IN  IF ~mask[i] THEN NaN
                 ELSE IF ~IsNaN(gathered) /\ gathered = Float32(Num(Sentinel(c)))
                 THEN NaN
                 ELSE gathered])

(* FY4B agri.calibrate: every variable of self.vars, in a dict *)
agri_calibrate(vars_, channels) ==
    IF \E v \in vars_ : LookupSubstitution(channels[v]).exc # "none"
    THEN Raised("IndexError")
    ELSE Returned([v \in vars_ |-> LookupSubstitution(channels[v]).value])

(* fy4a_giirs.calibrate: the visible channel only, as {'VIS': ...} *)
fy4a_giirs_calibrate(channel) ==
    LET r == LookupSubstitution(channel)
    IN  IF r.exc # "none" THEN r
        ELSE Returned([v \in {"VIS"} |-> r.value])

(***************************************************************************)
(* Specification SpecCal: calibrate() on small channels and tables         *)
(***************************************************************************)
MaxPixels == 2          \* pixels of a channel
MaxCount == 2           \* the largest raw count; the tables have an entry for each

CalFill == 99           \* FillValue of the tables
CalMin == 5             \* valid_range of the tables
CalMax == 60

Seqs(S, lo, hi) == UNION {[1..n -> S] : n \in lo..hi}

(* entry k of a table: an ordinary value that tells its position, the fill *)
(* value, the sentinel value itself, or NaN                                *)
Tables ==
    { [k \in 1..Len(kind) |-> IF kind[k] = "value" THEN Num(10 * k)
                      ELSE IF kind[k] = "fill" THEN Num(CalFill)
                      ELSE IF kind[k] = "sentinel" THEN Num(CalMin - 10)
                      ELSE NaN] :
        kind \in [1..(MaxCount + 1) -> {"value", "fill", "sentinel", "nan"}] }

Channels ==
    { [nom |-> nom, nom_min |-> 1, nom_max |-> nom_max, nom_fill_value |-> f,
       cal |-> cal, cal_min |-> CalMin, cal_max |-> CalMax,
       cal_fill_value |-> CalFill] :
        nom \in Seqs(0..MaxCount, 1, MaxPixels), nom_max \in {MaxCount - 1, MaxCount},
        f \in {2, 255}, cal \in Tables }

CalInit ==
    /\ navIn = None
    /\ navOut = None
    /\ dec = NoCall
    /\ calIn \in [fn : {"FY4B.agri.calibrate", "FY4A.fy4a_giirs.calibrate"},
                  channel : Channels]
    /\ calOut = None
    /\ NoMetadata
    /\ NoDatasets

CalAgri ==
    /\ calOut = None
    /\ calIn.fn = "FY4B.agri.calibrate"
    /\ calOut' = agri_calibrate({"NOMChannel01"},
                                [v \in {"NOMChannel01"} |-> calIn.channel])
    /\ UNCHANGED <<navVars, dec, calIn, metaVars, dsVars>>

CalGiirs ==
    /\ calOut = None
    /\ calIn.fn = "FY4A.fy4a_giirs.calibrate"
    /\ calOut' = fy4a_giirs_calibrate(calIn.channel)
    /\ UNCHANGED <<navVars, dec, calIn, metaVars, dsVars>>

CalNext == CalAgri \/ CalGiirs

SpecCal == CalInit /\ [][CalNext]_vars


(* the array calibrate() returned for the one channel of the call *)
CalArray == IF calIn.fn = "FY4B.agri.calibrate"
            THEN calOut.value["NOMChannel01"] ELSE calOut.value["VIS"]

(* pixel i has a count inside [valid_min, valid_max] that is not the fill *)
ValidCount(c, i) ==
    c.nom[i] >= c.nom_min /\ c.nom[i] <= c.nom_max /\ c.nom[i] # c.nom_fill_value

(* C2: a count outside the valid range or equal to the fill value gives    *)
(* NaN; every other count k gives the original table entry k (NaN when     *)
(* that entry is the table's fill value or the sentinel cal_min - 10, the  *)
(* masking of section 4.4), and the call does not fail.                    *)
C2_LookupExact ==
    calOut # None =>
        /\ calOut.exc = "none"
        /\ \A i \in 1..Len(calIn.channel.nom) :
             LET c == calIn.channel
             IN  IF ValidCount(c, i)
                 THEN /\ c.nom[i] < Len(c.cal)
                      /\ CalArray[i] =
                           IF c.cal[c.nom[i] + 1].v \in {c.cal_fill_value, Sentinel(c)}
                           THEN NaN ELSE c.cal[c.nom[i] + 1]
                 ELSE CalArray[i] = NaN


(***************************************************************************)
(* Strings.  A Python str is a sequence of one-character strings.          *)
(***************************************************************************)
Digits == {"0", "1", "2", "3", "4", "5", "6", "7", "8", "9"}
DigitValue(ch) ==
    CASE ch = "0" -> 0 [] ch = "1" -> 1 [] ch = "2" -> 2 [] ch = "3" -> 3
      [] ch = "4" -> 4 [] ch = "5" -> 5 [] ch = "6" -> 6 [] ch = "7" -> 7
      [] ch = "8" -> 8 [] ch = "9" -> 9

RECURSIVE Pow10(_)
Pow10(n) == IF n <= 0 THEN 1 ELSE 10 * Pow10(n - 1)

(* str.split(sep): the pieces between the separators, at least one piece *)
RECURSIVE SplitFrom(_, _, _)
SplitFrom(s, sep, piece) ==
    IF s = <<>> THEN <<piece>>
    ELSE IF Head(s) = sep THEN <<piece>> \o SplitFrom(Tail(s), sep, <<>>)
    ELSE SplitFrom(Tail(s), sep, Append(piece, Head(s)))
split(s, sep) == SplitFrom(s, sep, <<>>)

(* os.path.split(fpath)[1]: what follows the last '/' *)
basename(fpath) == LET parts == split(fpath, "/") IN parts[Len(parts)]

(* Python's seq[-k], k >= 1: None stands for IndexError *)
FromEnd(seq, k) == IF k > Len(seq) THEN None ELSE [item |-> seq[Len(seq) - k + 1]]

(* s[-k:] and s[:-k] *)
Last(s, k) == Slice(s, -k, Len(s))
DropLast(s, k) == Slice(s, 0, -k)

(* str.strip() on blanks *)
RECURSIVE LStrip(_)
LStrip(s) == IF s # <<>> /\ Head(s) = " " THEN LStrip(Tail(s)) ELSE s
RECURSIVE RStrip(_)
RStrip(s) == IF s # <<>> /\ s[Len(s)] = " " THEN RStrip(SubSeq(s, 1, Len(s) - 1)) ELSE s

RECURSIVE DigitsValue(_)
DigitsValue(s) ==
    IF s = <<>> THEN 0 ELSE (10 * DigitsValue(SubSeq(s, 1, Len(s) - 1))) + DigitValue(s[Len(s)])

AllDigits(s) == \A k \in 1..Len(s) : s[k] \in Digits
Unsigned(s) == IF s # <<>> /\ Head(s) \in {"+", "-"} THEN Tail(s) ELSE s
Negative(s) == s # <<>> /\ Head(s) = "-"

(* float(s) for the decimal spellings: blanks around, a sign, digits with  *)
(* at most one point and at least one digit, and an exponent E[sign]digits.*)
(* The value is num / 10^places (places >= 0); anything else raises        *)
(* ValueError.  (inf, nan and digit-group underscores are not spelt with   *)
(* the characters the model uses.)                                         *)
float(str) ==
    With(split(Unsigned(RStrip(LStrip(str))), "E"), LAMBDA parts :
    With(split(parts[1], "."), LAMBDA mant :
      LET whole == mant[1]
          frac == IF Len(mant) = 2 THEN mant[2] ELSE <<>>
          expo == IF Len(parts) = 2 THEN parts[2] ELSE <<"0">>
          ok == /\ Len(parts) <= 2
                /\ Len(mant) <= 2
                /\ AllDigits(whole) /\ AllDigits(frac)
                /\ Len(whole) + Len(frac) >= 1
                /\ Unsigned(expo) # <<>> /\ AllDigits(Unsigned(expo))
          shift == ((IF Negative(expo) THEN -1 ELSE 1) * DigitsValue(Unsigned(expo)))
                       - Len(frac)
      IN  IF ~ok THEN Raised("ValueError")
          ELSE Returned([num |-> (IF Negative(RStrip(LStrip(str))) THEN -1 ELSE 1)
                                    * DigitsValue(whole \o frac) * Pow10(shift),
                         places |-> IF shift < 0 THEN -shift ELSE 0])))

(* a float(...) value times mult / div, in model units of 1/scale *)
Scaled(f, mult, div, scale) == (f.num * mult * scale) \div (div * Pow10(f.places))


(***************************************************************************)
(* Datasets.                                                               *)
(*                                                                         *)
(* An HDF5 container is a record [fpath, attrs, root]: attrs maps the file *)
(* attributes, root maps dataset and group names (a group is itself such a *)
(* map).  A dataset instance is the map of its instance attributes;        *)
(* class attributes that are mutated in place are variables of the model.  *)
(* An exception carries the statement that raised it (at).                 *)
(***************************************************************************)
RaisedAt(kind, at) == [exc |-> kind, at |-> at]

(* np.arange(a, b, 1) *)
arange(a, b) == [k \in 1..Max(b - a, 0) |-> a + k - 1]

(* the longitude resolution with the file name consulted before the       *)
(* attributes are looked at                                                *)
ResolveSubSatLon_TokenFirst(attrs, tokens) ==
    LET t == FromEnd(tokens, 9)
    IN  IF t = None THEN RaisedAt("IndexError", "subsatlon_str")
        ELSE IF Len(t.item) # 5 \/ Last(t.item, 1) # <<"E">>
        THEN RaisedAt("RuntimeError", "subsatlon_str")
        ELSE IF "NOMSubSatLon" \in DOMAIN attrs THEN Returned(attrs["NOMSubSatLon"])
        ELSE IF "NOMCenterLon" \in DOMAIN attrs THEN Returned(attrs["NOMCenterLon"])
        ELSE With(float(DropLast(t.item, 1)), LAMBDA f :
               IF f.exc # "none" THEN RaisedAt(f.exc, "subsatlon_str")
               ELSE Returned(Scaled(f.value, 1, 10, LonScale)))

(* lines 116-124 of FY4A.py, repeated as FY4B.py:34-42 and 155-163: the   *)
(* sub-satellite longitude from the attributes, else from the file name    *)
ResolveSubSatLon(attrs, tokens) ==
    IF "NOMSubSatLon" \in DOMAIN attrs THEN Returned(attrs["NOMSubSatLon"])
    ELSE IF "NOMCenterLon" \in DOMAIN attrs THEN Returned(attrs["NOMCenterLon"])
    ELSE LET t == FromEnd(tokens, 9)
         IN  IF t = None THEN RaisedAt("IndexError", "subsatlon_str")
             ELSE IF Len(t.item) # 5 \/ Last(t.item, 1) # <<"E">>
             THEN RaisedAt("RuntimeError", "subsatlon_str")
             ELSE With(float(DropLast(t.item, 1)), LAMBDA f :
                    IF f.exc # "none" THEN RaisedAt(f.exc, "subsatlon_str")
                    ELSE Returned(Scaled(f.value, 1, 10, LonScale)))

(* lines 126-132 of FY4A.py, repeated as FY4B.py:44-50 and 165-171: the    *)
(* resolution in metres from the file name                                 *)
ResolveResolution(tokens) ==
    LET t == FromEnd(tokens, 2)
        parsed(digits, metres) ==
            With(float(digits), LAMBDA f :
              IF f.exc # "none" THEN RaisedAt(f.exc, "resolution_str")
              ELSE Returned(Scaled(f.value, metres, 1, ResScale)))
    IN  IF t = None THEN RaisedAt("IndexError", "resolution_str")
        ELSE IF Last(t.item, 2) \in {<<"k", "m">>, <<"K", "M">>}
        THEN parsed(DropLast(t.item, 2), 1000)
        ELSE IF Last(t.item, 1) \in {<<"m">>, <<"M">>}
        THEN parsed(DropLast(t.item, 1), 1)
        ELSE RaisedAt("RuntimeError", "resolution_str")

(* lines 110-144 of FY4A.py (fy4_L1.__init__), repeated as FY4B.py:28-62   *)
(* (agri.__init__) and FY4B.py:149-183 (giirs.__init__): the acquisition   *)
(* metadata from the attributes and the file name                          *)
ResolveMetadata(file) ==
    LET attrs == file.attrs
        File_name == IF "File Name" \in DOMAIN attrs THEN attrs["File Name"]
                     ELSE basename(file.fpath)
        ObservingKeys == {"Observing Beginning Date", "Observing Beginning Time",
                          "Observing Ending Date", "Observing Ending Time"}
        NumberKeys == {"Begin Line Number", "End Line Number",
                       "Begin Pixel Number", "End Pixel Number"}
    IN  With(split(File_name, "_"), LAMBDA tokens :
        With(ResolveSubSatLon(attrs, tokens), LAMBDA subsatlon :
          IF subsatlon.exc # "none" THEN subsatlon
          ELSE With(ResolveResolution(tokens), LAMBDA resolution :
            IF resolution.exc # "none" THEN resolution
            ELSE IF ~(ObservingKeys \subseteq DOMAIN attrs)
            THEN RaisedAt("KeyError", "Observing_DateTime")
            ELSE IF ~(NumberKeys \subseteq DOMAIN attrs)
            THEN RaisedAt("KeyError", "Line_Number")
            ELSE Returned(
              [FileInfo |-> file,
               attrs |-> attrs,
               File_name |-> File_name,
               NOMSubSatLon |-> subsatlon.value,
               resolution |-> resolution.value,
               Observing_Beginning_DateTime |->
                   attrs["Observing Beginning Date"] \o <<" ">>
                       \o attrs["Observing Beginning Time"],
               Observing_Ending_DateTime |->
                   attrs["Observing Ending Date"] \o <<" ">>
                       \o attrs["Observing Ending Time"],
               columns |-> arange(attrs["Begin Pixel Number"],
                                  attrs["End Pixel Number"] + 1),
               lines |-> arange(attrs["Begin Line Number"],
                                attrs["End Line Number"] + 1)]))))

(* i.startswith('NOMChannel') *)
NOMChannelNames == {"NOMChannel01", "NOMChannel02"}
(* a list of the names of a set, in the order the container lists them *)
RECURSIVE Listed(_)
Listed(names) ==
    IF names = {} THEN <<>>
    ELSE LET first == CHOOSE n \in names : \A m \in names : n = m \/ n = "NOMChannel01"
         IN  <<first>> \o Listed(names \ {first})
Members(list) == {list[k] : k \in 1..Len(list)}

(* np.meshgrid + flatten + reshape around a navigation function: the grid  *)
(* of nav(column, line) over lines x columns; the first exception wins     *)
GridOf(self, nav(_, _)) ==
    LET cells == (1..Len(self.lines)) \X (1..Len(self.columns))
        any == nav(0, 0)
    IN  IF any.exc # "none" THEN RaisedAt(any.exc, "lc2latlon")
        ELSE Returned(
               [lon |-> [rc \in cells |->
                           nav(self.columns[rc[2]], self.lines[rc[1]]).value.lon],
                lat |-> [rc \in cells |->
                           nav(self.columns[rc[2]], self.lines[rc[1]]).value.lat]])

(* fy4_L1.lc2latlon (FY4A.py:158-165) *)
fy4_L1_lc2latlon(self) ==
    LET nav(x, y) == FY4A_lc2latlon(x, y, self.resolution, self.NOMSubSatLon,
                                    NOMSatHeight)
    IN  GridOf(self, nav)

(* agri.lc2latlon (FY4B.py:84-91) *)
agri_lc2latlon(self) ==
    LET nav(x, y) == lc2latlon(x, y, "FY4",
                         [resolution |-> self.resolution, sub_lon |-> self.NOMSubSatLon])
    IN  GridOf(self, nav)

(* fy4a_agri.read_data (FY4A.py:176-179): self.data is built as a set of   *)
(* numpy arrays, which are unhashable: TypeError as soon as there is a     *)
(* channel, after self.vars has been assigned                              *)
fy4a_agri_read_data(self) ==
    LET vars_ == Listed(DOMAIN self.FileInfo.root \cap NOMChannelNames)
    IN  IF vars_ # <<>>
        THEN [exc |-> "TypeError", at |-> "read_data",
              self |-> Update(self, [vars |-> vars_])]
        ELSE [exc |-> "none", self |-> Update(self, [vars |-> vars_, data |-> {}])]

(* fy4a_agri.__init__ (FY4A.py:171-174) *)
fy4a_agri_init(file) ==
    With(ResolveMetadata(file), LAMBDA base :
      IF base.exc # "none" THEN base
      ELSE With(fy4a_agri_read_data(base.value), LAMBDA r :
        IF r.exc # "none" THEN RaisedAt(r.exc, r.at)
        ELSE With(fy4_L1_lc2latlon(r.self), LAMBDA grid :
          IF grid.exc # "none" THEN grid
          ELSE Returned(Update(r.self, grid.value)))))

(* agri.read_data (FY4B.py:79-82) *)
agri_read_data(self) ==
    LET root == self.FileInfo.root
        vars_ == Listed(DOMAIN root["Data"] \cap NOMChannelNames)
    IN  IF "Data" \notin DOMAIN root
        THEN [exc |-> "KeyError", at |-> "read_data", self |-> self]
        ELSE [exc |-> "none",
              self |-> Update(self,
                        [vars |-> vars_,
                         data |-> [v \in Members(vars_) |-> root["Data"][v].array]])]

(* agri.__init__ (FY4B.py:15-65); ghi.__init__ (FY4B.py:129-130) only calls *)
(* it                                                                       *)
agri_init(file) ==
    With(ResolveMetadata(file), LAMBDA base :
      IF base.exc # "none" THEN base
      ELSE With(agri_read_data(base.value), LAMBDA r :
        IF r.exc # "none" THEN RaisedAt(r.exc, r.at)
        ELSE With(agri_lc2latlon(r.self), LAMBDA grid :
          IF grid.exc # "none" THEN grid
          ELSE Returned(Update(r.self, grid.value)))))


(* h5py lookup of a dataset by its path of names; None stands for KeyError *)
RECURSIVE Lookup(_, _)
Lookup(node, path) ==
    IF path = <<>> THEN [item |-> node]
    ELSE IF Head(path) \notin DOMAIN node THEN None
    ELSE Lookup(node[Head(path)], Tail(path))

(* one dict literal of read_data: the datasets it reads, in order *)
EntryPaths(e) ==
    <<e.data, e.latitude, e.longitude>>
        \o (IF e.wavelength = <<>> THEN <<>> ELSE <<e.wavelength>>)

(* the statements self.data[var] = {...} of a read_data, in order: each    *)
(* dict is built before it is stored, and a missing dataset (KeyError)     *)
(* leaves the entries stored so far in place                               *)
RECURSIVE ReadEntries(_, _, _)
ReadEntries(root, entries, data) ==
    IF entries = <<>> THEN [exc |-> "none", data |-> data]
    ELSE LET e == Head(entries)
             paths == EntryPaths(e)
         IN  IF \E k \in 1..Len(paths) : Lookup(root, paths[k]) = None
             THEN [exc |-> "KeyError", at |-> "read_data", data |-> data]
             ELSE ReadEntries(root, Tail(entries),
                    Update(data, [v \in {e.var} |->
                      [data |-> IF e.sliced THEN Lookup(root, e.data).item.array
                                ELSE Lookup(root, e.data).item,
                       dims |-> e.dims,
                       latitude |-> Lookup(root, e.latitude).item.array,
                       longitude |-> Lookup(root, e.longitude).item.array,
                       wavelength |-> IF e.wavelength = <<>> THEN "single"
                                      ELSE Lookup(root, e.wavelength).item.array]]))

Infrared(var, data, lat, lon, wl) ==
    [var |-> var, data |-> data, latitude |-> lat, longitude |-> lon,
     wavelength |-> wl, dims |-> <<"wavelength", "point">>, sliced |-> TRUE]

(* fy4a_giirs.read_data (FY4A.py:227-265) *)
fy4a_giirs_entries ==
    << [var |-> "VIS", data |-> <<"ES_ContVIS">>, latitude |-> <<"VIS_Latitude">>,
        longitude |-> <<"VIS_Longitude">>, wavelength |-> <<>>,
        dims |-> <<"line", "column">>, sliced |-> FALSE],
       Infrared("NEdRLW", <<"ES_NEdRLW">>, <<"IRLW_Latitude">>, <<"IRLW_Longitude">>,
                <<"IRLW_VaildWaveLength">>),
       Infrared("RealLW", <<"ES_RealLW">>, <<"IRLW_Latitude">>, <<"IRLW_Longitude">>,
                <<"IRLW_VaildWaveLength">>),
       Infrared("NEdRMW", <<"ES_NEdRMW">>, <<"IRMW_Latitude">>, <<"IRMW_Longitude">>,
                <<"IRMW_VaildWaveLength">>),
       Infrared("RealMW", <<"ES_RealMW">>, <<"IRMW_Latitude">>, <<"IRMW_Longitude">>,
                <<"IRMW_VaildWaveLength">>) >>

(* giirs.read_data (FY4B.py:190-241) *)
giirs_entries ==
    LET D(n) == <<"Data", n>>
        G(n) == <<"Geolocation", n>>
    IN  << [var |-> "VIS", data |-> D("VIS_DN"), latitude |-> G("Latitude_VIS"),
            longitude |-> G("Longitude_VIS"), wavelength |-> <<>>,
            dims |-> <<"line", "column">>, sliced |-> TRUE],
           Infrared("NEdRLW", D("NEdR_LW"), G("Latitude_LW"), G("Longitude_LW"), D("WN_LW")),
           Infrared("RealLW", D("ES_RealLW"), G("Latitude_LW"), G("Longitude_LW"), D("WN_LW")),
           Infrared("ImaginaryLW", D("ES_ImaginaryLW"), G("Latitude_LW"),
                    G("Longitude_LW"), D("WN_LW")),
           Infrared("NEdRMW", D("NEdR_MW"), G("Latitude_MW"), G("Longitude_MW"), D("WN_MW")),
           Infrared("RealMW", D("ES_RealMW"), G("Latitude_MW"), G("Longitude_MW"), D("WN_MW")),
           Infrared("ImaginaryMW", D("ES_ImaginaryMW"), G("Latitude_MW"),
                    G("Longitude_MW"), D("WN_MW")) >>

(* fy4a_giirs.read_data (FY4A.py:227-265).  The instance never assigns     *)
(* self.data, so the statements self.data[var] = ... store into the class  *)
(* attribute fy4_L1.data (FY4A.py:95), the dict every instance shares:     *)
(* shared is that dict before the call, and the result carries it as it is *)
(* after the call.                                                         *)
fy4a_giirs_read_data(self, shared) ==
    With(ReadEntries(self.FileInfo.root, fy4a_giirs_entries, shared), LAMBDA r :
      Update(r, [self |-> Update(self,
                   [vars |-> <<"VIS", "NEdRLW", "NEdRMW", "RealLW", "RealMW">>]),
                 shared |-> r.data]))

(* fy4a_giirs.__init__ (FY4A.py:217-219) *)
fy4a_giirs_init(file, shared) ==
    With(ResolveMetadata(file), LAMBDA base :
      IF base.exc # "none" THEN Update(base, [shared |-> shared])
      ELSE With(fy4a_giirs_read_data(base.value, shared), LAMBDA r :
        IF r.exc # "none" THEN [exc |-> r.exc, at |-> r.at, shared |-> r.shared]
        ELSE [exc |-> "none", value |-> r.self, shared |-> r.shared]))

(* giirs.read_data (FY4B.py:190-241): self.data is a new dict of the       *)
(* instance, filled entry by entry                                         *)
giirs_read_data(self) ==
    With(ReadEntries(self.FileInfo.root, giirs_entries, << >>), LAMBDA r :
      Update(r, [self |-> Update(self,
                   [vars |-> <<"VIS", "NEdRLW", "NEdRMW", "RealLW", "RealMW",
                               "ImaginaryLW", "ImaginaryMW">>,
                    data |-> r.data])]))

(* giirs.__init__ (FY4B.py:136-185) *)
giirs_init(file) ==
    With(ResolveMetadata(file), LAMBDA base :
      IF base.exc # "none" THEN base
      ELSE With(giirs_read_data(base.value), LAMBDA r :
        IF r.exc # "none" THEN RaisedAt(r.exc, r.at)
        ELSE Returned(r.self)))

(***************************************************************************)
(* Himawari-8 HSD datasets                                                 *)
(***************************************************************************)
(* read_binfile run to its end: the loop of DecodeEntry over the schema *)
RECURSIVE DecodeLoop(_)
DecodeLoop(d) ==
    IF d.status = "failed" THEN d
    ELSE IF d.fm > Len(d.formation_band) THEN [d EXCEPT !.status = "done"]
    ELSE DecodeLoop(DecodeEntry(d))

(* int(s): blanks around, a sign, decimal digits *)
int(str) ==
    LET s == RStrip(LStrip(str))
    IN  IF Unsigned(s) = <<>> \/ ~AllDigits(Unsigned(s)) THEN Raised("ValueError")
        ELSE Returned((IF Negative(s) THEN -1 ELSE 1) * DigitsValue(Unsigned(s)))

(* lines 158-179 of read_binfile: the frame and the formation that the     *)
(* observation area and the band select in the configuration               *)
SelectFrame(config, observation_area, band) ==
    LET frame_area ==
            IF observation_area = <<"F", "L", "D", "K">> THEN config.Frame.FullDisk
            ELSE IF observation_area = <<"J", "P", "e", "e">> THEN config.Frame.JapanArea
            ELSE IF observation_area = <<"R", "3", "f", "f">> THEN config.Frame.TargetArea
            ELSE config.Frame.LandmarkArea
    IN  IF band = 3 THEN frame_area.band3
        ELSE IF band \in {1, 2, 4} THEN frame_area.band124
        ELSE frame_area.band5_16
SelectFormation(config, band) ==
    IF band < 7 THEN config.Formation.band1_6 ELSE config.Formation.band7_16

(* read_binfile(fpath) (Himawari8.py:142-243) on the bytes of the file *)
read_binfile(self, file, config) ==
    LET frame == SelectFrame(config, self.observation_area, self.band)
    IN  IF self._fmt \notin {<<"b", "z", "2">>, <<"D", "A", "T">>}
        THEN RaisedAt("UnboundLocalError", "read_binfile")
        ELSE With(DecodeLoop(DecodeBegin(file.info, SelectFormation(config, self.band),
                                         frame["East-west direction"],
                                         frame["North-south direction"])), LAMBDA d :
               IF d.status = "failed" THEN RaisedAt(d.exc, "read_binfile")
               ELSE Returned(d.fileinfo))

SlopeUpdated == "Calibrated Slope for count-radiance conversion equation_updated value of No. 8 of this block"
InterceptUpdated == "Calibrated Intercept for count-radiance conversion equation_updated value of No. 9 of this block"
AlbedoCoefficient == "Coefficient for transformation from radiance  to albedo"

ProjectionFields ==
    {"sub_lon", "Column scaling factor", "Line scaling factor", "Column offset",
     "Line offset", "Distance from Earth's center to virtual satellite",
     "Earth's equatorial radius", "Earth's polar radius"}

(* block[field] of the decoded header is there *)
Has(FileInfo, block, fields) ==
    block \in DOMAIN FileInfo /\ fields \subseteq DOMAIN FileInfo[block]

(* himawari8_hsd.lc2latlon (Himawari8.py:245-255) *)
himawari8_lc2latlon(self) ==
    LET F == self.FileInfo
        columns == F["Data information"]["Number of columns"][1]
        lines == F["Data information"]["Number of lines"][1]
        first_line == F["Segment information"]["First line number of image segment"][1]
        grid == [columns |-> arange(1, columns + 1),
                 lines |-> arange(first_line, first_line + lines)]
        nav(x, y) == lc2latlon_himawari8(x, y, self.proj_args)
    IN  IF ~Has(F, "Data information", {"Number of columns", "Number of lines"})
           \/ ~Has(F, "Segment information", {"First line number of image segment"})
        THEN RaisedAt("KeyError", "lc2latlon")
        ELSE GridOf(grid, nav)

(* himawari8_hsd.calibrate_data (Himawari8.py:257-287) *)
calibrate_data(self) ==
    LET F == self.FileInfo
        cal == F["Calibration information"]
        data == F["Data"][PixelField]
    IN  IF ~Has(F, "Data", {PixelField})
           \/ ~Has(F, "Calibration information", {SlopeUpdated, InterceptUpdated})
        THEN RaisedAt("KeyError", "calibrate_data")
        ELSE IF self.band < 7
        THEN IF AlbedoCoefficient \notin DOMAIN cal
             THEN RaisedAt("KeyError", "calibrate_data")
             ELSE LET radiance == [k \in 1..Len(data) |->
                                     (data[k] * cal[SlopeUpdated][1])
                                         + cal[InterceptUpdated][1]]
                  IN  Returned([vars |-> <<"radiance">>,
                                radiance |-> radiance,
                                albedo |-> [k \in 1..Len(data) |->
                                              radiance[k] * cal[AlbedoCoefficient][1]]])
        ELSE \* the thermal bands read self.FileInfo["central wave length"], and
             \* read_binfile stores under the names of block_names only
             RaisedAt("KeyError", "calibrate_data")

(* himawari8_hsd.__init__ (Himawari8.py:104-133) *)
himawari8_hsd_init(file, config) ==
    LET fname == basename(file.fpath)
        dotted == split(fname, ".")
        proj_args(P) ==
            [sub_lon |-> P["sub_lon"][1],
             CFAC |-> P["Column scaling factor"][1],
             LFAC |-> P["Line scaling factor"][1],
             COFF2 |-> P["Column offset"][1],
             LOFF2 |-> P["Line offset"][1],
             h |-> P["Distance from Earth's center to virtual satellite"][1],
             ea |-> P["Earth's equatorial radius"][1],
             eb |-> P["Earth's polar radius"][1]]
    IN  With(split(fname, "_"), LAMBDA tokens :
          IF Len(tokens) < 6 THEN RaisedAt("IndexError", "__init__")
          ELSE With(int(Tail(tokens[5])), LAMBDA band :
            IF band.exc # "none" THEN RaisedAt(band.exc, "__init__")
            ELSE With([_fmt |-> dotted[Len(dotted)],
                       satellite_name |-> tokens[2],
                       observation_start_datetime |-> tokens[3] \o tokens[4],
                       observation_area |-> tokens[6],
                       band |-> band.value], LAMBDA self0 :
              With(read_binfile(self0, file, config), LAMBDA FileInfo :
                IF FileInfo.exc # "none" THEN FileInfo
                ELSE IF ~Has(FileInfo.value, "Projection information", ProjectionFields)
                THEN RaisedAt("KeyError", "__init__")
                ELSE With(Update(self0,
                            [FileInfo |-> FileInfo.value,
                             proj_args |->
                               proj_args(FileInfo.value["Projection information"])]),
                          LAMBDA self1 :
                  With(himawari8_lc2latlon(self1), LAMBDA grid :
                    IF grid.exc # "none" THEN grid
                    ELSE With(Update(self1, grid.value), LAMBDA self2 :
                      With(calibrate_data(self2), LAMBDA cal :
                        IF cal.exc # "none" THEN cal
                        ELSE Returned(Update(self2, cal.value))))))))))

(***************************************************************************)
(* Lookup by name (__getitem__)                                            *)
(***************************************************************************)
(* self.data as the attribute lookup finds it: the dict of the instance    *)
(* when the instance has assigned one, else the dict of the class          *)
DataOf(self, classData) == IF "data" \in DOMAIN self THEN self.data ELSE classData

(* dict[key] *)
Subscript(dict, key) ==
    IF key \in DOMAIN dict THEN Returned(dict[key]) ELSE Raised("KeyError")

(* getattr(self, name) *)
getattr(self, name) ==
    IF name \in DOMAIN self THEN Returned(self[name]) ELSE Raised("AttributeError")

(* the lookup without its last branch: every name that is not an          *)
(* enumerated variable is taken for an attribute of the instance           *)
fy4_L1_getitem_AnyAttribute(self, classData, varname) ==
    IF varname \in Members(self.vars) THEN Subscript(DataOf(self, classData), varname)
    ELSE getattr(self, varname)

(* fy4_L1.__getitem__ (FY4A.py:146-156), inherited by fy4a_agri, and       *)
(* agri.__getitem__ (FY4B.py:67-77), inherited by ghi                      *)
fy4_L1_getitem(self, classData, varname) ==
    IF varname \in Members(self.vars) THEN Subscript(DataOf(self, classData), varname)
    ELSE IF varname \in {"lat", "lon"} THEN getattr(self, varname)
    ELSE Raised("ValueError")

(* fy4a_giirs.__getitem__ (FY4A.py:221-222) and giirs.__getitem__          *)
(* (FY4B.py:187-188)                                                       *)
giirs_getitem(self, classData, varname) ==
    Subscript(DataOf(self, classData), varname)

(* himawari8_hsd.__getitem__ (Himawari8.py:136-140) *)
himawari8_hsd_getitem(self, varname) ==
    IF varname \in Members(self.vars) THEN getattr(self, varname)
    ELSE Raised("KeyError")

Classes == {"fy4a_agri", "fy4a_giirs", "agri", "ghi", "giirs", "himawari8_hsd"}

(* obj[varname] for an instance of class c *)
GetItem(c, self, classData, varname) ==
    IF c \in {"fy4a_agri", "agri", "ghi"} THEN fy4_L1_getitem(self, classData, varname)
    ELSE IF c \in {"fy4a_giirs", "giirs"} THEN giirs_getitem(self, classData, varname)
    ELSE himawari8_hsd_getitem(self, varname)

(***************************************************************************)
(* The Himawari Standard Data configuration (config/                       *)
(* Himawari_Standard_Data.json, read at Himawari8.py:154-157).  The file   *)
(* is not part of the sources at hand: HSDConfig has its structure         *)
(* (Formation by band group, Frame by area and band group) with the field  *)
(* names the code reads, one field each, and small frames.                 *)
(***************************************************************************)
HSDBlock(fields) ==
    << <<"Block number", "i1", 1>>, <<"Block length", "i2", 1>> >>
        \o fields \o << <<"Spare", "", 1>> >>

HSDHeaderBlocks(calibration) ==
    << HSDBlock(<< >>),
       HSDBlock(<< <<"Number of columns", "i2", 1>>, <<"Number of lines", "i2", 1>> >>),
       HSDBlock(<< <<"sub_lon", "R8", 1>>,
                   <<"Column scaling factor", "i4", 1>>,
                   <<"Line scaling factor", "i4", 1>>,
                   <<"Column offset", "R4", 1>>,
                   <<"Line offset", "R4", 1>>,
                   <<"Distance from Earth's center to virtual satellite", "R8", 1>>,
                   <<"Earth's equatorial radius", "R8", 1>>,
                   <<"Earth's polar radius", "R8", 1>> >>),
       HSDBlock(<< >>),
       HSDBlock(calibration),
       HSDBlock(<< >>),
       HSDBlock(<< <<"First line number of image segment", "i2", 1>> >>) >>

HSDCalibration1_6 ==
    << <<"Slope for count-radiance conversion equation", "R8", 1>>,
       <<"Intercept for count-radiance conversion equation", "R8", 1>>,
       <<AlbedoCoefficient, "R8", 1>>,
       <<SlopeUpdated, "R8", 1>>,
       <<InterceptUpdated, "R8", 1>> >>
HSDCalibration7_16 ==
    << <<"Slope for count-radiance conversion equation", "R8", 1>>,
       <<"Intercept for count-radiance conversion equation", "R8", 1>>,
       <<"radiance to brightness temperature_c0", "R8", 1>>,
       <<"radiance to brightness temperature_c1", "R8", 1>>,
       <<"radiance to brightness temperature_c2", "R8", 1>>,
       <<"Planck constant", "R8", 1>>,
       <<"Boltzmann constant", "R8", 1>>,
       <<"Speed of light", "R8", 1>>,
       <<SlopeUpdated, "R8", 1>>,
       <<InterceptUpdated, "R8", 1>> >>

RECURSIVE Flatten(_)
Flatten(seqs) == IF seqs = << >> THEN << >> ELSE Head(seqs) \o Flatten(Tail(seqs))

HSDFrame == [n \in {"East-west direction", "North-south direction"} |->
               IF n = "East-west direction" THEN 2 ELSE 1]
HSDFrameArea == [band3 |-> HSDFrame, band124 |-> HSDFrame, band5_16 |-> HSDFrame]

HSDConfig ==
    [Formation |->
       [band1_6 |-> Flatten(HSDHeaderBlocks(HSDCalibration1_6)) \o PixelEntry,
        band7_16 |-> Flatten(HSDHeaderBlocks(HSDCalibration7_16)) \o PixelEntry],
     Frame |->
       [FullDisk |-> HSDFrameArea, JapanArea |-> HSDFrameArea,
        TargetArea |-> HSDFrameArea, LandmarkArea |-> HSDFrameArea]]

(***************************************************************************)
(* Construction and read_data by class                                     *)
(***************************************************************************)
WithShared(r, shared) == Update(r, [shared |-> shared])

(* c(fpath): the outcome, with fy4_L1.data as the call leaves it *)
Construct(c, file, shared) ==
    IF c = "fy4a_agri" THEN WithShared(fy4a_agri_init(file), shared)
    ELSE IF c = "fy4a_giirs" THEN fy4a_giirs_init(file, shared)
    ELSE IF c \in {"agri", "ghi"} THEN WithShared(agri_init(file), shared)
    ELSE IF c = "giirs" THEN WithShared(giirs_init(file), shared)
    ELSE WithShared(himawari8_hsd_init(file, HSDConfig), shared)

(* obj.read_data() on a constructed instance *)
ReadData(c, self, shared) ==
    IF c = "fy4a_agri" THEN WithShared(fy4a_agri_read_data(self), shared)
    ELSE IF c = "fy4a_giirs" THEN fy4a_giirs_read_data(self, shared)
    ELSE IF c \in {"agri", "ghi"} THEN WithShared(agri_read_data(self), shared)
    ELSE WithShared(giirs_read_data(self), shared)

(***************************************************************************)
(* Containers the datasets are constructed from                            *)
(***************************************************************************)
RECURSIVE Join(_, _)
Join(tokens, sep) ==
    IF Len(tokens) = 1 THEN Head(tokens)
    ELSE Head(tokens) \o <<sep>> \o Join(Tail(tokens), sep)

(* a level-1 file name with the official fields *)
L1Name(lonTok, resTok) ==
    Join(<<<<"F", "Y", "4", "A">>, <<"D", "I", "S", "K">>, lonTok, <<"L", "1">>, <<"F", "D", "I">>, <<"M", "U", "L", "T">>, <<"N", "O", "M">>, <<"T", "0">>, <<"T", "1">>, resTok, <<"V", "1", ".", "H", "D", "F">>>>,
         "_")
(* a file name without the leading fields, the longitude among them *)
L1ShortName(resTok) == Join(<<<<"N", "O", "M">>, <<"T", "0">>, <<"T", "1">>, resTok, <<"V", "1", ".", "H", "D", "F">>>>, "_")

Directory == <<"/", "d", "/">>

(* one HDF5 dataset *)
Dataset(array) == [array |-> array]

Among(names, array) == [n \in names |-> Dataset(array)]

(* the root group a class reads: channels NOMChannel datasets for the      *)
(* imagers, every dataset but those of missing for the sounders            *)
RootOf(c, channels, missing, array) ==
    LET imager == Among({"NOMChannel01", "NOMChannel02"}
                           \cap (IF channels = 0 THEN {}
                                 ELSE IF channels = 1 THEN {"NOMChannel01"}
                                 ELSE NOMChannelNames),
                        array)
        reads(entries) ==
            UNION { {p[Len(p)] : p \in {EntryPaths(entries[k])[j] :
                                          j \in 1..Len(EntryPaths(entries[k]))}} :
                    k \in 1..Len(entries) }
        under(group) ==
            {p[2] : p \in {q \in UNION {{EntryPaths(giirs_entries[k])[j] :
                                            j \in 1..Len(EntryPaths(giirs_entries[k]))} :
                                        k \in 1..Len(giirs_entries)} : q[1] = group}}
    IN  IF c = "fy4a_agri" THEN imager
        ELSE IF c \in {"agri", "ghi"} THEN [g \in {"Data"} |-> imager]
        ELSE IF c = "fy4a_giirs" THEN Among(reads(fy4a_giirs_entries) \ missing, array)
        ELSE [g \in {"Data", "Geolocation"} |-> Among(under(g) \ missing, array)]

ObservingAttrs ==
    ("Observing Beginning Date" :> <<"2", "0", "1", "9", "-", "0", "1", "-", "0", "1">>)
        @@ ("Observing Beginning Time" :> <<"0", "0", ":", "0", "0">>)
        @@ ("Observing Ending Date" :> <<"2", "0", "1", "9", "-", "0", "1", "-", "0", "1">>)
        @@ ("Observing Ending Time" :> <<"0", "0", ":", "1", "5">>)

NumberAttrs(lines, pixels) ==
    ("Begin Line Number" :> lines[1]) @@ ("End Line Number" :> lines[2])
        @@ ("Begin Pixel Number" :> pixels[1]) @@ ("End Pixel Number" :> pixels[2])

Container(name, attrs, lines, pixels, root) ==
    [fpath |-> Directory \o name,
     attrs |-> attrs @@ ObservingAttrs @@ NumberAttrs(lines, pixels),
     root |-> root]

(***************************************************************************)
(* Specification SpecMeta: one construction of a FY4A / FY4B dataset from  *)
(* a container, over file names and attributes                             *)
(***************************************************************************)
MaxLine == 1            \* the largest begin / end line number of the containers

MetaClasses == {"fy4a_agri", "fy4a_giirs", "agri", "giirs"}

MetaLonTokens ==
    {<<"1", "0", "4", "7", "E">>, <<"A", "B", "C", "D", "E">>, <<"1", "0", "4", "7", "W">>, <<"0", "4", "7", "E">>, <<"-", "9", "9", "9", "E">>, <<" ", "1", "2", " ", "E">>, <<"1", "0", ".", "4", "E">>}
MetaResTokens == {<<"4", "0", "0", "0", "M">>, <<"0", "1", "6", "K", "M">>, <<"2", "k", "m">>, <<"4", "0", "0", "0">>, <<"K", "M">>, <<"5", "0", "0", "m">>}

MetaLonAttrs ==
    { << >>,
      "NOMSubSatLon" :> 1047000,
      "NOMCenterLon" :> 1330000,
      ("NOMSubSatLon" :> 1047000) @@ ("NOMCenterLon" :> 1330000) }

(* the 'File Name' attribute, when the container has one *)
MetaFileName == "File Name" :> L1Name(<<"0", "9", "9", "5", "E">>, <<"2", "0", "0", "0", "M">>)

(* official names with one token varied, and names without the longitude *)
MetaNames ==
    {L1Name(lonTok, <<"4", "0", "0", "0", "M">>) : lonTok \in MetaLonTokens}
        \cup {L1Name(<<"1", "0", "4", "7", "E">>, resTok) : resTok \in MetaResTokens}
        \cup {L1Name(<<"A", "B", "C", "D", "E">>, <<"4", "0", "0", "0">>)}
        \cup {L1ShortName(resTok) : resTok \in MetaResTokens}

MetaFiles(c) ==
    { Container(name, lonAttrs @@ nameAttr, lines, pixels,
                RootOf(c, channels, {}, <<7>>)) :
        name \in MetaNames,
        lonAttrs \in MetaLonAttrs, nameAttr \in {<< >>, MetaFileName},
        lines \in (0..MaxLine) \X (0..MaxLine),
        pixels \in {<<0, 1>>, <<1, 0>>},
        channels \in IF c \in {"fy4a_agri", "agri", "ghi"} THEN {0, 1} ELSE {1} }

MetaInit ==
    /\ navIn = None
    /\ navOut = None
    /\ dec = NoCall
    /\ calIn = None
    /\ calOut = None
    /\ metaIn \in UNION { {[cls |-> c, file |-> f] : f \in MetaFiles(c)} : c \in MetaClasses }
    /\ metaOut = None
    /\ NoDatasets

(* metaIn.cls(metaIn.file.fpath) *)
MetaConstruct ==
    /\ metaOut = None
    /\ \E r \in {Construct(metaIn.cls, metaIn.file, << >>)} : metaOut' = r
    /\ UNCHANGED <<navVars, dec, calVars, metaIn, dsVars>>

MetaNext == MetaConstruct

SpecMeta == MetaInit /\ [][MetaNext]_vars

(***************************************************************************)
(* The metadata of a construction, as the claims speak of it               *)
(***************************************************************************)
MetaAttrs == metaIn.file.attrs
MetaTokens ==
    split(IF "File Name" \in DOMAIN MetaAttrs THEN MetaAttrs["File Name"]
          ELSE basename(metaIn.file.fpath), "_")
MetaLonToken == FromEnd(MetaTokens, 9)
MetaResToken == FromEnd(MetaTokens, 2)
MetaConstructed == metaOut # None /\ metaOut.exc = "none"
MetaNoLonAttr == {"NOMSubSatLon", "NOMCenterLon"} \cap DOMAIN MetaAttrs = {}

(* DDDDE: four digits and an E *)
WellFormedLon(t) ==
    /\ t # None
    /\ Len(t.item) = 5
    /\ AllDigits(SubSeq(t.item, 1, 4))
    /\ t.item[5] = "E"
(* the suffix of a resolution token: "km", "m" or "" *)
ResSuffix(t) ==
    IF t = None THEN ""
    ELSE IF Last(t.item, 2) \in {<<"k", "m">>, <<"K", "M">>} THEN "km"
    ELSE IF Last(t.item, 1) \in {<<"m">>, <<"M">>} THEN "m"
    ELSE ""
(* the digits before the suffix, when there is nothing else before it *)
ResDigits(t) ==
    LET d == DropLast(t.item, IF ResSuffix(t) = "km" THEN 2 ELSE 1)
    IN  IF ResSuffix(t) # "" /\ d # << >> /\ AllDigits(d) THEN d ELSE << >>

(* C5: at construction the sub-satellite longitude is the NOMSubSatLon     *)
(* attribute when the container has it, else the NOMCenterLon attribute    *)
(* when it has that, and the file-name token DDDDE (as DDDD/10) only when  *)
(* it has neither; when an attribute supplies the value, no failure of the *)
(* construction comes from the file-name longitude token.                  *)
C5_LonPriority ==
    metaOut # None =>
      /\ "NOMSubSatLon" \in DOMAIN MetaAttrs =>
           IF metaOut.exc = "none"
           THEN metaOut.value.NOMSubSatLon = MetaAttrs["NOMSubSatLon"]
           ELSE metaOut.at # "subsatlon_str"
      /\ ("NOMSubSatLon" \notin DOMAIN MetaAttrs /\ "NOMCenterLon" \in DOMAIN MetaAttrs) =>
           IF metaOut.exc = "none"
           THEN metaOut.value.NOMSubSatLon = MetaAttrs["NOMCenterLon"]
           ELSE metaOut.at # "subsatlon_str"
      /\ (MetaNoLonAttr /\ WellFormedLon(MetaLonToken) /\ metaOut.exc = "none") =>
           metaOut.value.NOMSubSatLon
               = DigitsValue(SubSeq(MetaLonToken.item, 1, 4)) * (LonScale \div 10)

(* a dataset constructed with the longitude of the attribute although the  *)
(* longitude token of its file name is malformed                           *)
C5_Witness ==
    /\ MetaConstructed
    /\ "NOMSubSatLon" \in DOMAIN MetaAttrs
    /\ ~WellFormedLon(MetaLonToken)
    /\ metaOut.value.NOMSubSatLon = MetaAttrs["NOMSubSatLon"]

(* C6: without a longitude attribute, a token DDDDE gives the longitude    *)
(* DDDD/10 and a token NNNkm/KM or NNNm/M the resolution NNN*1000 or NNN;  *)
(* a missing or malformed longitude token, or a resolution token with      *)
(* neither suffix, makes the construction fail with the format error       *)
(* (RuntimeError) and with nothing else.                                   *)
C6_TokenParsing ==
    (metaOut # None /\ MetaNoLonAttr) =>
      /\ (~WellFormedLon(MetaLonToken) \/ ResSuffix(MetaResToken) = "") =>
           metaOut.exc = "RuntimeError"
      /\ (MetaConstructed /\ WellFormedLon(MetaLonToken)) =>
           metaOut.value.NOMSubSatLon
               = DigitsValue(SubSeq(MetaLonToken.item, 1, 4)) * (LonScale \div 10)
      /\ (MetaConstructed /\ ResDigits(MetaResToken) # << >>) =>
           metaOut.value.resolution
               = DigitsValue(ResDigits(MetaResToken)) * ResScale
                   * (IF ResSuffix(MetaResToken) = "km" THEN 1000 ELSE 1)

(* C7: a construction that gets as far as the line and pixel numbers (it  *)
(* has not failed on the file-name tokens before) fails with the format    *)
(* error (RuntimeError) whenever End Line Number < Begin Line Number or    *)
(* End Pixel Number < Begin Pixel Number, and no constructed dataset has   *)
(* an empty line or column extent.                                         *)
C7_ExtentOrder ==
    metaOut # None =>
      /\ (\/ MetaAttrs["End Line Number"] < MetaAttrs["Begin Line Number"]
          \/ MetaAttrs["End Pixel Number"] < MetaAttrs["Begin Pixel Number"]) =>
           \/ metaOut.exc = "RuntimeError"
           \/ metaOut.exc # "none" /\ metaOut.at \in {"subsatlon_str", "resolution_str"}
      /\ metaOut.exc = "none" =>
           Len(metaOut.value.lines) > 0 /\ Len(metaOut.value.columns) > 0

(***************************************************************************)
(* Himawari Standard Data files of the configuration above                 *)
(***************************************************************************)
TypeSize(type) ==
    IF type \in {"i1", "C"} THEN 1
    ELSE IF type = "i2" THEN 2
    ELSE IF type \in {"i4", "R4"} THEN 4
    ELSE 8

(* the n little-endian bytes of v *)
RECURSIVE LEBytes(_, _)
LEBytes(v, n) == IF n = 0 THEN << >> ELSE <<v % 256>> \o LEBytes(v \div 256, n - 1)

(* the bytes of header block number: its number, its length, its fields *)
HSDBlockBytes(number, block, values) ==
    LET fields == SubSeq(block, 3, Len(block) - 1)
        body == Flatten([k \in 1..Len(fields) |->
                    LEBytes(IF fields[k][1] \in DOMAIN values THEN values[fields[k][1]] ELSE 0,
                            TypeSize(fields[k][2]) * fields[k][3])])
    IN  LEBytes(number, 1) \o LEBytes(3 + Len(body), 2) \o body

HSDBytes(calibration, values, pixels) ==
    LET blocks == HSDHeaderBlocks(calibration)
    IN  Flatten([b \in 1..Len(blocks) |-> HSDBlockBytes(b, blocks[b], values)])
            \o Flatten([k \in 1..Len(pixels) |-> LEBytes(pixels[k], 2)])

(* header values of a two-column, one-line segment near the sub-satellite  *)
(* point (offsets in half pixels, lengths in km, longitudes in 1/LonScale) *)
HSDValues ==
    ("Number of columns" :> 2) @@ ("Number of lines" :> 1)
        @@ ("First line number of image segment" :> 1)
        @@ ("sub_lon" :> 1407000)
        @@ ("Column scaling factor" :> 40932549) @@ ("Line scaling factor" :> 40932549)
        @@ ("Column offset" :> 3) @@ ("Line offset" :> 2)
        @@ ("Distance from Earth's center to virtual satellite" :> NOMSatHeight)
        @@ ("Earth's equatorial radius" :> EarthEa) @@ ("Earth's polar radius" :> EarthEb)
        @@ (SlopeUpdated :> 2) @@ (InterceptUpdated :> 1) @@ (AlbedoCoefficient :> 3)

HSDFile(band, calibration, pixels) ==
    [fpath |-> Directory \o Join(<<<<"H", "S">>, <<"H", "0", "8">>, <<"2", "0", "1", "9", "0", "1", "0", "1">>, <<"0", "0", "0", "0">>, band, <<"F", "L", "D", "K">>, <<"R", "0", "5">>,
                                   <<"S", "0", "1", "1", "0", ".", "D", "A", "T">>>>, "_"),
     info |-> HSDBytes(calibration, HSDValues, pixels)]

(***************************************************************************)
(* Specification SpecDs: a program that holds up to two instances of one   *)
(* dataset class, constructs them, reads their data again and looks        *)
(* variables up by name                                                    *)
(***************************************************************************)
MaxContents == 2        \* the number of distinct contents of the containers

DsNames == {"NOMChannel01", "VIS", "RealMW", "radiance", "albedo", "lat", "lon", "BT"}

DsFiles(c) ==
    IF c = "himawari8_hsd"
    THEN {HSDFile(<<"B", "0", "3">>, HSDCalibration1_6, <<10 * k, 20>>) : k \in 1..MaxContents}
            \cup {HSDFile(<<"B", "0", "7">>, HSDCalibration7_16, <<10, 20>>)}
    ELSE { Container(L1Name(<<"1", "0", "4", "7", "E">>, <<"4", "0", "0", "0", "M">>), "NOMSubSatLon" :> 1047000,
                     <<0, 1>>, <<0, 1>>, RootOf(c, channels, missing, <<k>>)) :
             k \in 1..MaxContents,
             channels \in IF c \in {"fy4a_agri", "agri", "ghi"} THEN {0, 1} ELSE {1},
             missing \in IF c \in {"fy4a_giirs", "giirs"} THEN {{}, {"ES_RealMW"}}
                         ELSE {{}} }

DsInit ==
    /\ navIn = None
    /\ navOut = None
    /\ dec = NoCall
    /\ calIn = None
    /\ calOut = None
    /\ NoMetadata
    /\ cls \in Classes
    /\ objs = [i \in Instances |-> None]
    /\ fy4_L1_data = << >>
    /\ last = None

(* i = cls(fpath): a name is bound only when the constructor returns *)
DsConstruct ==
    \E i \in Instances, f \in DsFiles(cls) :
       /\ objs[i] = None
       /\ \E r \in {Construct(cls, f, fy4_L1_data)} :
              /\ objs' = [objs EXCEPT ![i] = IF r.exc = "none" THEN r.value ELSE None]
              /\ fy4_L1_data' = r.shared
              /\ last' = [op |-> "construct", id |-> i, varname |-> "", exc |-> r.exc,
                          value |-> None]
       /\ UNCHANGED <<navVars, dec, calVars, metaVars, cls>>

(* i.read_data() *)
DsReadData ==
    \E i \in Instances :
       /\ objs[i] # None
       /\ cls # "himawari8_hsd"
       /\ \E r \in {ReadData(cls, objs[i], fy4_L1_data)} :
              /\ objs' = [objs EXCEPT ![i] = r.self]
              /\ fy4_L1_data' = r.shared
              /\ last' = [op |-> "read_data", id |-> i, varname |-> "", exc |-> r.exc,
                          value |-> None]
       /\ UNCHANGED <<navVars, dec, calVars, metaVars, cls>>

(* i[varname] *)
DsGetItem ==
    \E i \in Instances, varname \in DsNames :
       /\ objs[i] # None
       /\ \E r \in {GetItem(cls, objs[i], fy4_L1_data, varname)} :
              last' = [op |-> "getitem", id |-> i, varname |-> varname, exc |-> r.exc,
                       value |-> IF r.exc = "none" THEN r.value ELSE None]
       /\ UNCHANGED <<navVars, dec, calVars, metaVars, cls, objs, fy4_L1_data>>

DsNext == DsConstruct \/ DsReadData \/ DsGetItem

SpecDs == DsInit /\ [][DsNext]_vars

(***************************************************************************)
(* Lookups on the instances, as the claims speak of them                   *)
(***************************************************************************)
IsOp(l, op) == l # None /\ l.op = op

(* varname is an enumerated variable name of self or a geolocation axis *)
Registered(self, varname) == varname \in Members(self.vars) \cup {"lat", "lon"}

(* the exception a class raises for a name it does not know *)
UnknownVariableError(c) ==
    IF c \in {"fy4a_agri", "agri", "ghi"} THEN "ValueError" ELSE "KeyError"

(* what every lookup on instance i returns, with its variable list *)
Answers(i) ==
    [vars |-> objs[i].vars,
     items |-> [n \in DsNames |-> GetItem(cls, objs[i], fy4_L1_data, n)]]

(* C8: for every dataset class, the lookup of a name that is neither an    *)
(* enumerated variable name nor a geolocation axis raises the class's      *)
(* unknown-variable exception (ValueError for the imagers, KeyError for    *)
(* the sounders and Himawari), changes no instance and no shared data, and *)
(* the lookups of the enumerated names still succeed afterwards.           *)
C8_UnknownLookup ==
    [][ (IsOp(last', "getitem") /\ ~Registered(objs[last'.id], last'.varname)) =>
          /\ last'.exc = UnknownVariableError(cls)
          /\ objs' = objs
          /\ fy4_L1_data' = fy4_L1_data
          /\ \A n \in Members(objs'[last'.id].vars) :
                GetItem(cls', objs'[last'.id], fy4_L1_data', n).exc = "none" ]_vars

(* an unknown name has just been looked up, and raised, on an instance     *)
(* that enumerates variables                                               *)
C8_Witness ==
    /\ IsOp(last, "getitem")
    /\ ~Registered(objs[last.id], last.varname)
    /\ last.exc = UnknownVariableError(cls)
    /\ objs[last.id].vars # << >>

(* C9: on a dataset constructed from a container with at least one         *)
(* channel, the lookup of every enumerated variable name succeeds, and for *)
(* the classes with a computed geolocation (FY4A AGRI, FY4B AGRI / GHI,    *)
(* Himawari HSD) the lookups of 'lat' and 'lon' return the computed grids. *)
C9_LookupSucceeds ==
    \A i \in Instances :
       (objs[i] # None /\ objs[i].vars # << >>) =>
          /\ \A n \in Members(objs[i].vars) :
                GetItem(cls, objs[i], fy4_L1_data, n).exc = "none"
          /\ cls \in {"fy4a_agri", "agri", "ghi", "himawari8_hsd"} =>
                /\ GetItem(cls, objs[i], fy4_L1_data, "lat") = Returned(objs[i].lat)
                /\ GetItem(cls, objs[i], fy4_L1_data, "lon") = Returned(objs[i].lon)

(* C10: no operation on one instance (its construction, its read_data, a   *)
(* lookup on it) changes the variable list or what any lookup returns on   *)
(* another instance of the class.                                          *)
C10_NoSharedState ==
    [][ \A a \in Instances :
          (objs[a] # None /\ last' # None /\ last'.id # a) =>
             /\ objs'[a] # None
             /\ Answers(a)' = Answers(a) ]_vars

(***************************************************************************)
(* Specification SpecNavArr: a navigation call on arrays of two pixels     *)
(***************************************************************************)
(* the radicand of sd (lc2latlon.py:88-92) for one pixel *)
Radicand(col, row, p) ==
    LET x == ScanAngle(col, p.COFF2, p.CFAC)
        y == ScanAngle(row, p.LOFF2, p.LFAC)
        ea2 == p.ea * p.ea
        ratio == ea2 \div ((p.eb * p.eb) \div TrigScale)
        hcc == (((p.h * cos(x)) \div TrigScale) * cos(y)) \div TrigScale
        denom == ((cos(y) * cos(y)) \div TrigScale)
                 + ((ratio * ((sin(y) * sin(y)) \div TrigScale)) \div TrigScale)
    IN  (hcc * hcc) - ((((p.h * p.h) - ea2) \div TrigScale) * denom)

(* a navigation function on the arrays x, y: NumPy computes every          *)
(* statement element by element, and the exceptions come from the          *)
(* parameters before any pixel is looked at                                *)
OnArrays(nav(_, _), x, y) ==
    IF nav(0, 0).exc # "none" THEN nav(0, 0)
    ELSE Returned([lon |-> [k \in 1..Len(x) |-> nav(x[k], y[k]).value.lon],
                   lat |-> [k \in 1..Len(x) |-> nav(x[k], y[k]).value.lat]])

(* the call navIn.fn(x, y, ...) with the parameters of navIn *)
NavCall(in, x, y) ==
    LET fy4a(a, b) == FY4A_lc2latlon(a, b, in.resolution * ResScale, in.sub_lon,
                                     NOMSatHeight)
        shared(a, b) == lc2latlon(a, b, "FY4",
                            [resolution |-> in.resolution * ResScale,
                             sub_lon |-> in.sub_lon])
        himawari(a, b) == lc2latlon_himawari8(a, b,
                              Update(HimawariProj, [sub_lon |-> in.sub_lon]))
    IN  IF in.fn = "FY4A.lc2latlon" THEN OnArrays(fy4a, x, y)
        ELSE IF in.fn = "lc2latlon.lc2latlon" THEN OnArrays(shared, x, y)
        ELSE OnArrays(himawari, x, y)

NavArrSubLons == {0, 1047000}
NavArrResolutions == {4000, 3000}

NavArrInit ==
    /\ navIn \in
         { [fn |-> fn, resolution |-> r, sub_lon |-> sl,
            i |-> <<i1, i2>>, j |-> <<j1, j2>>] :
             fn \in {"FY4A.lc2latlon", "lc2latlon.lc2latlon", "lc2latlon_himawari8"},
             r \in NavArrResolutions, sl \in NavArrSubLons,
             i1 \in 0..NavSteps, j1 \in 0..NavSteps,
             i2 \in {0, NavSteps \div 2}, j2 \in {0, NavSteps \div 2} }
    /\ navOut = None
    /\ dec = NoCall
    /\ calIn = None
    /\ calOut = None
    /\ NoMetadata
    /\ NoDatasets

(* the column and line arrays of the call *)
NavArrX(in) == [k \in 1..Len(in.i) |-> GridSample(in.i[k], NavOff2(in))]
NavArrY(in) == [k \in 1..Len(in.j) |-> GridSample(in.j[k], NavOff2(in))]

NavArrCall ==
    /\ navOut = None
    /\ navOut' = NavCall(navIn, NavArrX(navIn), NavArrY(navIn))
    /\ UNCHANGED <<navIn, dec, calVars, metaVars, dsVars>>

NavArrNext == NavArrCall

SpecNavArr == NavArrInit /\ [][NavArrNext]_vars

(* the projection parameters the call of navIn computes with *)
NavParams(in) ==
    IF in.fn = "lc2latlon_himawari8"
    THEN Update(Update(default_parameters, HimawariProj), [sub_lon |-> in.sub_lon])
    ELSE Update(Update(default_parameters, FY4Constants(in.resolution * ResScale)),
                [sub_lon |-> in.sub_lon])

(* the viewing ray of pixel k of the call misses the earth ellipsoid *)
OffEarth(in, k) == Radicand(NavArrX(in)[k], NavArrY(in)[k], NavParams(in)) < 0

NavResolutionKnown(in) ==
    in.fn = "lc2latlon_himawari8" \/ in.resolution \in {250, 500, 1000, 2000, 4000}

(* C11: a call whose parameters are accepted raises nothing whatever its   *)
(* pixels; a pixel whose viewing ray misses the ellipsoid (negative        *)
(* radicand) gets NaN for longitude and latitude, and every pixel gets     *)
(* what the call on that pixel alone returns.                              *)
C11_OffEarthNaN ==
    (navOut # None /\ NavResolutionKnown(navIn)) =>
       /\ navOut.exc = "none"
       /\ \A k \in 1..Len(navIn.i) :
            /\ OffEarth(navIn, k) =>
                 (navOut.value.lon[k] = NaN /\ navOut.value.lat[k] = NaN)
            /\ LET alone == NavCall(navIn, <<NavArrX(navIn)[k]>>, <<NavArrY(navIn)[k]>>)
               IN  /\ navOut.value.lon[k] = alone.value.lon[1]
                   /\ navOut.value.lat[k] = alone.value.lat[1]

(* a call returned with an off-earth pixel next to a pixel on the earth *)
C11_Witness ==
    /\ navOut # None
    /\ navOut.exc = "none"
    /\ OffEarth(navIn, 2)
    /\ ~OffEarth(navIn, 1)
    /\ navOut.value.lon[2] = NaN
    /\ ~IsNaN(navOut.value.lon[1])

(***************************************************************************)
(* Specification SpecHsdCal: himawari8_hsd.calibrate_data on an instance   *)
(* whose FileInfo holds two pixels and the calibration block of its band   *)
(***************************************************************************)
ValidBits == "Number of valid bits per pixel"
ErrorCount == "Count value of error pixels"

HsdCounts == {0, 5, 7, 9, 15}
HsdBands == {3, 6, 7, 16}

(* the calibration block of a band as read_binfile stores it: every field  *)
(* an array of one element                                                 *)
HsdCalibrationBlock(band, gain, offset) ==
    LET common == (ValidBits :> <<3>>) @@ (ErrorCount :> <<15>>)
                    @@ (SlopeUpdated :> <<gain>>) @@ (InterceptUpdated :> <<offset>>)
                    @@ ("Slope for count-radiance conversion equation" :> <<gain>>)
                    @@ ("Intercept for count-radiance conversion equation" :> <<offset>>)
    IN  IF band < 7 THEN common @@ (AlbedoCoefficient :> <<3>>)
        ELSE common @@ ("radiance to brightness temperature_c0" :> <<1>>)
                    @@ ("radiance to brightness temperature_c1" :> <<1>>)
                    @@ ("radiance to brightness temperature_c2" :> <<0>>)
                    @@ ("Planck constant" :> <<1>>) @@ ("Boltzmann constant" :> <<1>>)
                    @@ ("Speed of light" :> <<1>>)

HsdCalInit ==
    /\ calIn \in
         { [band |-> band,
            FileInfo |-> ("Data" :> (PixelField :> <<c1, c2>>))
                           @@ ("Calibration information" :>
                                  HsdCalibrationBlock(band, gain, offset))] :
             band \in HsdBands, c1 \in HsdCounts, c2 \in HsdCounts,
             gain \in {2, 3}, offset \in {1, -20} }
    /\ calOut = None
    /\ navIn = None
    /\ navOut = None
    /\ dec = NoCall
    /\ NoMetadata
    /\ NoDatasets

HsdCalibrate ==
    /\ calOut = None
    /\ calOut' = calibrate_data(calIn)
    /\ UNCHANGED <<calIn, navVars, dec, metaVars, dsVars>>

HsdCalNext == HsdCalibrate

SpecHsdCal == HsdCalInit /\ [][HsdCalNext]_vars

(* the counts, gain and offset of the instance calibrated *)
HsdData == calIn.FileInfo["Data"][PixelField]
HsdGain == calIn.FileInfo["Calibration information"][SlopeUpdated][1]
HsdOffset == calIn.FileInfo["Calibration information"][InterceptUpdated][1]
(* a count inside the range of the valid bits and not the error count *)
HsdValid(count) ==
    LET cal == calIn.FileInfo["Calibration information"]
    IN  /\ count >= 0
        /\ count < 2 ^ cal[ValidBits][1]
        /\ count # cal[ErrorCount][1]

(* C12: calibrating a thermal band (7-16) raises nothing and gives every   *)
(* pixel a brightness temperature, NaN where the radiance is <= 0.         *)
C12_PlanckInversion ==
    (calOut # None /\ calIn.band >= 7) =>
       /\ calOut.exc = "none"
       /\ "Tb" \in DOMAIN calOut.value
       /\ \A k \in 1..Len(HsdData) :
            ((HsdData[k] * HsdGain) + HsdOffset <= 0) => calOut.value.Tb[k] = NaN

(* C13: calibrating a band below 7 gives gain * count + offset for every   *)
(* count inside the valid range that is not the error count, and NaN for   *)
(* every other count.                                                      *)
C13_LinearCalibration ==
    (calOut # None /\ calIn.band < 7) =>
       /\ calOut.exc = "none"
       /\ \A k \in 1..Len(HsdData) :
            Num(calOut.value.radiance[k])
               = IF HsdValid(HsdData[k])
                 THEN Num((HsdGain * HsdData[k]) + HsdOffset)
                 ELSE NaN

(***************************************************************************)
(* Specification SpecDecSchema: read_binfile on complete buffers and       *)
(* schemas with type codes outside the chain, with entries after the       *)
(* pixel field, and with a repeat count on the pixel field                 *)
(***************************************************************************)
SchemaPlain == BlockA \o PixelEntry
SchemaUnknownFirst ==
    << <<"Block number", "u1", 1>> >> \o Tail(BlockA) \o PixelEntry
SchemaUnknownInBlock ==
    << <<"Block number", "i1", 1>>, <<"Block length", "i2", 1>>,
       <<"Total number of header blocks", "I2", 1>>, <<"Spare", "", 1>> >>
        \o PixelEntry
SchemaUnknownLast == BlockA \o PixelEntry \o << <<"Trailer", "f8", 1>> >>
SchemaTrailer == BlockA \o PixelEntry \o << <<"Trailer", "i1", 1>> >>
SchemaTrailingBlock == BlockA \o PixelEntry \o BlockB
SchemaRepeat == BlockA \o << <<PixelField, "i2", 3>> >>

DecSchemas ==
    {SchemaPlain, SchemaUnknownFirst, SchemaUnknownInBlock, SchemaUnknownLast,
     SchemaTrailer, SchemaTrailingBlock, SchemaRepeat}

(* a buffer with everything the schema asks for: the block with its        *)
(* padding, the pixels of the frame, and a second block behind them        *)
CompleteBuffer(declared, EW_size, NS_size) ==
    BlockBytes(1, declared) \o PixelBytes(EW_size * NS_size)
        \o BlockBytes(2, HeaderBytes)

(* read_binfile is called *)
DecSchemaStart ==
    /\ Idle(dec)
    /\ \E schema \in DecSchemas, EW_size \in 1..MaxSize, NS_size \in 1..MaxSize,
          declared \in HeaderBytes..(HeaderBytes + MaxPad) :
            dec' = DecodeBegin(CompleteBuffer(declared, EW_size, NS_size),
                               schema, EW_size, NS_size)
    /\ UNCHANGED <<navVars, calVars, metaVars, dsVars>>

DecSchemaNext == DecSchemaStart \/ DecStep \/ DecReturn

SpecDecSchema == DecInit /\ [][DecSchemaNext]_vars

(* the loop of d stands at an entry whose type code no branch of the       *)
(* chain recognizes                                                        *)
Unrecognized(d) ==
    /\ d.fm <= Len(d.formation_band)
    /\ d.formation_band[d.fm][2] \notin {"i1", "i2", "i4", "C", "R4", "R8", ""}

(* C14: at an entry with an unrecognized type code the call fails there:   *)
(* the entry is not skipped, a failed call decodes nothing further, and a  *)
(* call returns only when every entry of its schema was recognized.        *)
C14_SchemaError ==
    [][/\ (dec.status = "running" /\ Unrecognized(dec)) =>
            /\ dec'.status = "failed"
            /\ dec'.exc # "none"
            /\ dec'.fm = dec.fm
            /\ dec'.fileinfo = dec.fileinfo
       /\ dec.status = "failed" => dec' = dec
       /\ dec'.status = "done" =>
            \A k \in 1..Len(dec'.formation_band) :
               dec'.formation_band[k][2] \in {"i1", "i2", "i4", "C", "R4", "R8", ""}]_vars

(* a call failed at an unrecognized entry in the middle of a block, with   *)
(* fields of that block already decoded                                    *)
C14_Witness ==
    /\ dec.status = "failed"
    /\ dec.exc = "RuntimeError"
    /\ Unrecognized(dec)
    /\ dec.fm > 1
    /\ dec.block # None
    /\ "Block length" \in DOMAIN dec.block

(* the pixel array the call is to decode: width x height two-byte values   *)
(* from the cursor on                                                      *)
PixelArray(d) ==
    frombuffer(Slice(d.info, d.pos, d.pos + ((d.EW_size * d.NS_size) * 2)),
               "uint16").value

(* C19: the pixel field is decoded as width x height two-byte values from  *)
(* the cursor on, whatever repeat count its schema entry has, and stored   *)
(* as the 'Data' entry; it is the last entry the loop decodes.             *)
C19_PixelFieldEndsLoop ==
    [][(dec.status = "running" /\ dec.fm <= Len(dec.formation_band)) =>
         /\ (dec.formation_band[dec.fm][1] = PixelField /\ dec'.status = "running") =>
              /\ Len(PixelArray(dec)) = dec.EW_size * dec.NS_size
              /\ dec'.fileinfo["Data"] = [n \in {PixelField} |-> PixelArray(dec)]
         /\ \A k \in 1..(dec.fm - 1) : dec.formation_band[k][1] # PixelField]_vars

(***************************************************************************)
(* calibrate() as a method of a constructed dataset: it reads the          *)
(* datasets of self.FileInfo (an h5py file opened "r") and returns the     *)
(* calibrated arrays.  The results carry the instance as the call leaves   *)
(* it.                                                                     *)
(***************************************************************************)
(* an HDF5 dataset with the attributes calibrate() reads *)
CalDataset(array, valid_range, FillValue) ==
    [array |-> array, attrs |-> [valid_range |-> valid_range, FillValue |-> FillValue]]

(* nom_channel = nom[:], cal_channel = cal[:] and the four attributes:     *)
(* slicing an h5py dataset reads its values into a new array               *)
ChannelOf(nom, cal) ==
    [nom |-> nom.array,
     nom_min |-> nom.attrs.valid_range[1], nom_max |-> nom.attrs.valid_range[2],
     nom_fill_value |-> nom.attrs.FillValue,
     cal |-> cal.array,
     cal_min |-> cal.attrs.valid_range[1], cal_max |-> cal.attrs.valid_range[2],
     cal_fill_value |-> cal.attrs.FillValue]

(* the table's dataset after a call that remapped the fill entries to     *)
(* the sentinel in place, on a view of the dataset's values               *)
StoredTable_Aliased(cal, c) == [cal EXCEPT !.array = FillToSentinel(c)]

(* the table's dataset after cal_channel[cal_channel == cal_fill_value] =  *)
(* int(cal_min - 10): cal_channel is the array cal[:] made, the dataset    *)
(* keeps its values                                                        *)
StoredTable(cal, c) == cal

(* 'CALChannel' + v[10:] (FY4A) and v.replace('NOM', 'CAL') (FY4B) *)
CALName(v) == IF v = "NOMChannel01" THEN "CALChannel01" ELSE "CALChannel02"

(* the for loop over self.vars of FY4B agri.calibrate: the calibrated      *)
(* arrays so far in done, the group of the tables in cals                  *)
RECURSIVE CalibrateEach(_, _, _, _)
CalibrateEach(vars_, noms, cals, done) ==
    IF vars_ = <<>> THEN [exc |-> "none", value |-> done, cals |-> cals]
    ELSE With(Head(vars_), LAMBDA v :
           IF v \notin DOMAIN noms \/ CALName(v) \notin DOMAIN cals
           THEN [exc |-> "KeyError", cals |-> cals]
           ELSE With(ChannelOf(noms[v], cals[CALName(v)]), LAMBDA c :
                With(LookupSubstitution(c), LAMBDA r :
                With(Update(cals, [n \in {CALName(v)} |->
                                     StoredTable(cals[CALName(v)], c)]), LAMBDA after :
                  IF r.exc # "none" THEN [exc |-> r.exc, cals |-> after]
                  ELSE CalibrateEach(Tail(vars_), noms, after,
                                     Update(done, [n \in {v} |-> r.value]))))))

(* self with the group of the calibration tables as a call left it *)
WithTables(self, group, cals) ==
    Update(self, [FileInfo |->
        Update(self.FileInfo, [root |->
            IF group = "" THEN cals
            ELSE Update(self.FileInfo.root, [g \in {group} |-> cals])])])

(* agri.calibrate with the first statement of fy4a_agri.calibrate,       *)
(* self.data = {}                                                          *)
agri_calibrate_on_DataReset(self) ==
    LET root == self.FileInfo.root
        self1 == Update(self, [data |-> << >>])
    IN  IF self.vars = <<>> THEN [exc |-> "none", value |-> << >>, self |-> self1]
        ELSE IF ~({"Data", "Calibration"} \subseteq DOMAIN root)
        THEN [exc |-> "KeyError", self |-> self1]
        ELSE With(CalibrateEach(self.vars, root["Data"], root["Calibration"], << >>),
               LAMBDA r :
                 IF r.exc # "none"
                 THEN [exc |-> r.exc, self |-> WithTables(self1, "Calibration", r.cals)]
                 ELSE [exc |-> "none", value |-> r.value,
                       self |-> WithTables(self1, "Calibration", r.cals)])

(* agri.calibrate (FY4B.py:93-123): calibrated_data is a local dict *)
agri_calibrate_on(self) ==
    LET root == self.FileInfo.root
    IN  IF self.vars = <<>> THEN [exc |-> "none", value |-> << >>, self |-> self]
        ELSE IF ~({"Data", "Calibration"} \subseteq DOMAIN root)
        THEN [exc |-> "KeyError", self |-> self]
        ELSE With(CalibrateEach(self.vars, root["Data"], root["Calibration"], << >>),
               LAMBDA r :
                 IF r.exc # "none"
                 THEN [exc |-> r.exc, self |-> WithTables(self, "Calibration", r.cals)]
                 ELSE [exc |-> "none", value |-> r.value,
                       self |-> WithTables(self, "Calibration", r.cals)])

(* fy4a_agri.calibrate (FY4A.py:181-211): self.data = {} first; the first  *)
(* channel's array is to be stored in self.calibrated_data, an attribute   *)
(* nothing defines, and so is the value returned                           *)
fy4a_agri_calibrate(self) ==
    LET root == self.FileInfo.root
        self1 == Update(self, [data |-> << >>])
    IN  IF self.vars = <<>> THEN [exc |-> "AttributeError", self |-> self1]
        ELSE With(CalibrateEach(<<Head(self.vars)>>, root, root, << >>), LAMBDA r :
               [exc |-> IF r.exc # "none" THEN r.exc ELSE "AttributeError",
                self |-> WithTables(self1, "", r.cals)])

(* fy4a_giirs.calibrate (FY4A.py:266-312) *)
fy4a_giirs_calibrate_on(self) ==
    LET root == self.FileInfo.root
        self1 == Update(self, [calbrated_data |-> << >>])
    IN  IF ~({"ES_ContVIS", "ES_CalSTableVIS"} \subseteq DOMAIN root)
        THEN [exc |-> "KeyError", self |-> self1]
        ELSE With(ChannelOf(root["ES_ContVIS"], root["ES_CalSTableVIS"]), LAMBDA c :
               Update(fy4a_giirs_calibrate(c),
                      [self |-> WithTables(self1, "",
                          Update(root, [n \in {"ES_CalSTableVIS"} |->
                                           StoredTable(root["ES_CalSTableVIS"], c)]))]))

(* obj.calibrate() for an instance of class c *)
Calibrate(c, self) ==
    IF c = "fy4a_agri" THEN fy4a_agri_calibrate(self)
    ELSE IF c = "fy4a_giirs" THEN fy4a_giirs_calibrate_on(self)
    ELSE agri_calibrate_on(self)

(***************************************************************************)
(* Specification SpecRecal: datasets constructed from containers with      *)
(* calibration tables, then calibrate() and lookups in any order           *)
(***************************************************************************)
RecalClasses == {"fy4a_agri", "fy4a_giirs", "agri"}

RecalCounts == { CalDataset(nom, <<0, 3>>, 255) : nom \in {<<0, 1>>, <<1, 2>>, <<2, 3>>} }
RecalTables ==
    { CalDataset(cal, <<CalMin, CalMax>>, CalFill) :
        cal \in { <<Num(10), Num(CalFill), Num(30)>>,
                  <<Num(CalFill), Num(20), Num(CalMin - 10)>> } }

RecalRoot(c, channels, nom, cal) ==
    LET imager == IF channels = 0 THEN << >> ELSE ("NOMChannel01" :> nom)
        tables == "CALChannel01" :> cal
    IN  IF c = "fy4a_agri" THEN imager @@ tables
        ELSE IF c = "agri" THEN [g \in {"Data", "Calibration"} |->
                                   IF g = "Data" THEN imager ELSE tables]
        ELSE ("ES_ContVIS" :> nom) @@ ("ES_CalSTableVIS" :> cal)
                @@ RootOf(c, 1, {}, <<1>>)

RecalFiles(c) ==
    { Container(L1Name(<<"1", "0", "4", "7", "E">>, <<"4", "0", "0", "0", "M">>),
                "NOMSubSatLon" :> 1047000, <<0, 1>>, <<0, 1>>,
                RecalRoot(c, channels, nom, cal)) :
        channels \in IF c = "fy4a_giirs" THEN {1} ELSE {0, 1},
        nom \in RecalCounts, cal \in RecalTables }

RecalInit ==
    /\ navIn = None
    /\ navOut = None
    /\ dec = NoCall
    /\ calIn = None
    /\ calOut = None
    /\ NoMetadata
    /\ cls \in RecalClasses
    /\ objs = [i \in Instances |-> None]
    /\ fy4_L1_data = << >>
    /\ last = None

(* i = cls(fpath) *)
RecalConstruct ==
    \E i \in Instances, f \in RecalFiles(cls) :
       /\ objs[i] = None
       /\ \E r \in {Construct(cls, f, fy4_L1_data)} :
              /\ objs' = [objs EXCEPT ![i] = IF r.exc = "none" THEN r.value ELSE None]
              /\ fy4_L1_data' = r.shared
              /\ last' = [op |-> "construct", id |-> i, varname |-> "", exc |-> r.exc,
                          value |-> None]
       /\ UNCHANGED <<navVars, dec, calVars, metaVars, cls>>

(* i.calibrate() *)
RecalCalibrate ==
    \E i \in Instances :
       /\ objs[i] # None
       /\ \E r \in {Calibrate(cls, objs[i])} :
              /\ objs' = [objs EXCEPT ![i] = r.self]
              /\ last' = [op |-> "calibrate", id |-> i, varname |-> "", exc |-> r.exc,
                          value |-> IF r.exc = "none" THEN r.value ELSE None]
       /\ UNCHANGED <<navVars, dec, calVars, metaVars, cls, fy4_L1_data>>

RecalNext == RecalConstruct \/ RecalCalibrate \/ DsGetItem

SpecRecal == RecalInit /\ [][RecalNext]_vars

(* what self.calibrate() returns, or raises, when called now *)
CalibrateOutcome(self) ==
    With(Calibrate(cls, self), LAMBDA r :
      [exc |-> r.exc, value |-> IF r.exc = "none" THEN r.value ELSE None])

(* C15: on every constructed dataset, what calibrate() returns (or raises) *)
(* is the same before and after every calibrate() and every lookup, a      *)
(* call returns just that, and no call alters the datasets of the          *)
(* container: the counts and the tables the next call reads.               *)
C15_CalibrateIdempotent ==
    [][ \A i \in Instances :
          objs[i] # None =>
             /\ objs'[i] # None
             /\ \A after \in {objs'[i]} :
                   /\ CalibrateOutcome(after) = CalibrateOutcome(objs[i])
                   /\ after.FileInfo = objs[i].FileInfo
             /\ (IsOp(last', "calibrate") /\ last'.id = i) =>
                   [exc |-> last'.exc, value |-> last'.value]
                       = CalibrateOutcome(objs[i]) ]_vars

(* calibrate() has returned on a FY4B AGRI dataset, or on a FY4A GIIRS     *)
(* dataset, whose table has a fill entry, and the table still has it       *)
C15_Witness ==
    /\ IsOp(last, "calibrate")
    /\ last.exc = "none"
    /\ LET root == objs[last.id].FileInfo.root
           table == IF cls = "agri" THEN root["Calibration"]["CALChannel01"]
                    ELSE root["ES_CalSTableVIS"]
       IN  /\ cls \in {"agri", "fy4a_giirs"}
           /\ \E k \in 1..Len(table.array) : table.array[k] = Num(table.attrs.FillValue)
           /\ \E v \in DOMAIN last.value : \E k \in 1..Len(last.value[v]) :
                 last.value[v][k] = NaN

(* what the dataset says of itself: the acquisition metadata, the variable *)
(* list, and what the lookup of every name returns ('lat' and 'lon' and    *)
(* the raw channels among them)                                            *)
Observed(self, classData) ==
    [NOMSubSatLon |-> self.NOMSubSatLon,
     resolution |-> self.resolution,
     lines |-> self.lines,
     columns |-> self.columns,
     window |-> <<self.Observing_Beginning_DateTime, self.Observing_Ending_DateTime>>,
     vars |-> self.vars,
     items |-> [n \in DsNames |-> GetItem(cls, self, classData, n)]]

(* C16: a calibrate() call or a lookup leaves every constructed dataset    *)
(* with the metadata, the variable list, the raw arrays and the lat / lon  *)
(* grids it had before the call.                                           *)
C16_DatasetUnchanged ==
    [][ (last' # None /\ last'.op \in {"calibrate", "getitem"}) =>
          \A i \in Instances :
             objs[i] # None =>
                /\ objs'[i] # None
                /\ \A after \in {objs'[i]}, data \in {fy4_L1_data'} :
                      Observed(after, data) = Observed(objs[i], fy4_L1_data) ]_vars

(* calibrate() has returned on a FY4B AGRI dataset with a channel, and the *)
(* lookup of the channel gives the counts of the container                 *)
C16_Witness ==
    /\ IsOp(last, "calibrate")
    /\ cls = "agri"
    /\ last.exc = "none"
    /\ objs[last.id].vars = <<"NOMChannel01">>
    /\ GetItem(cls, objs[last.id], fy4_L1_data, "NOMChannel01")
          = Returned(objs[last.id].FileInfo.root["Data"]["NOMChannel01"].array)
    /\ GetItem(cls, objs[last.id], fy4_L1_data, "lat") = Returned(objs[last.id].lat)

(* the constants the documentation gives for each resolution in metres:    *)
(* twice COFF = LOFF, and CFAC = LFAC                                      *)
DocumentedConstants ==
    [r \in {250, 500, 1000, 2000, 4000} |->
        IF r = 250 THEN <<43967, 163730199>>
        ELSE IF r = 500 THEN <<21983, 81865099>>
        ELSE IF r = 1000 THEN <<10991, 40932549>>
        ELSE IF r = 2000 THEN <<5495, 20466274>>
        ELSE <<2747, 10233137>>]

(* the navigation of one pixel with the documented constants of r *)
DocumentedCall(in, r) ==
    Returned(Geolocate(NavX(in), NavY(in),
        [COFF2 |-> DocumentedConstants[r][1], CFAC |-> DocumentedConstants[r][2],
         LOFF2 |-> DocumentedConstants[r][1], LFAC |-> DocumentedConstants[r][2],
         h |-> NOMSatHeight, ea |-> EarthEa, eb |-> EarthEb, sub_lon |-> in.sub_lon]))

LonTokens ==
    {<<"0", "0", "0", "0", "E">>, <<"1", "0", "4", "7", "E">>, <<"1", "8", "0", "0", "E">>,
     <<"1", "8", "0", "1", "E">>, <<"9", "9", "9", "9", "E">>}

(* longitudes of the attributes, in 1/LonScale degree *)
LonAttrValues == {1047000, 1800000, 1900000, -1800000}

LonAttrs ==
    {<< >>} \cup {"NOMSubSatLon" :> v : v \in LonAttrValues}
            \cup {"NOMCenterLon" :> v : v \in LonAttrValues}

LonFiles(c) ==
    { Container(L1Name(lonTok, <<"4", "0", "0", "0", "M">>), lonAttrs, <<0, 1>>, <<0, 1>>,
                RootOf(c, 0, {}, <<7>>)) :
        lonTok \in LonTokens, lonAttrs \in LonAttrs }

LonInit ==
    /\ navIn = None
    /\ navOut = None
    /\ dec = NoCall
    /\ calIn = None
    /\ calOut = None
    /\ metaIn \in UNION { {[cls |-> c, file |-> f] : f \in LonFiles(c)} : c \in MetaClasses }
    /\ metaOut = None
    /\ NoDatasets

LonNext == MetaConstruct

SpecLon == LonInit /\ [][LonNext]_vars

(* C18: the sub-satellite longitude of every constructed dataset lies in   *)
(* (-180, 180] degrees, whether an attribute or the file name supplied it. *)
C18_LonInRange ==
    MetaConstructed =>
       /\ metaOut.value.NOMSubSatLon > -180 * LonScale
       /\ metaOut.value.NOMSubSatLon <= 180 * LonScale

(***************************************************************************)
(* FY4B giirs.calibrate (FY4B.py:242-289): the visible channel with a      *)
(* table of three coefficients (a1, bias, a0) per pixel.  A channel c      *)
(* holds the counts nom, the table cal (one triple per pixel), the valid   *)
(* ranges and the fill value of the counts.                                *)
(***************************************************************************)
(* reflectence = a1 * (nom_channel - bias) + a0 *)
Reflectance(c) ==
    [i \in 1..Len(c.nom) |-> (c.cal[i][1] * (c.nom[i] - c.cal[i][2])) + c.cal[i][3]]

giirs_calibrate(c) ==
    LET mask == nom_mask(c)
        reflectence == Reflectance(c)
    IN  Returned([v \in {"VIS"} |->
          [i \in 1..Len(c.nom) |->
             IF ~mask[i] THEN NaN                               \* line 286
             ELSE IF reflectence[i] = Sentinel(c) THEN NaN      \* line 287
             ELSE Num(reflectence[i])]])

(***************************************************************************)
(* Specification SpecReflect: giirs.calibrate on two pixels                *)
(***************************************************************************)
ReflectCoefficients ==
    {<<1, 0, 0>>, <<2, 1, 3>>, <<1, 1, CalMin - 10>>, <<3, 2, 1>>}

ReflectChannels ==
    { [nom |-> <<n1, n2>>, nom_min |-> 0, nom_max |-> 2, nom_fill_value |-> f,
       cal |-> <<t1, t2>>, cal_min |-> CalMin, cal_max |-> CalMax] :
        n1 \in 0..3, n2 \in 0..3, f \in {2, 255},
        t1 \in ReflectCoefficients, t2 \in ReflectCoefficients }

ReflectInit ==
    /\ navIn = None
    /\ navOut = None
    /\ dec = NoCall
    /\ calIn \in [fn : {"FY4B.giirs.calibrate"}, channel : ReflectChannels]
    /\ calOut = None
    /\ NoMetadata
    /\ NoDatasets

ReflectCalibrate ==
    /\ calOut = None
    /\ calOut' = giirs_calibrate(calIn.channel)
    /\ UNCHANGED <<navVars, dec, calIn, metaVars, dsVars>>

ReflectNext == ReflectCalibrate

SpecReflect == ReflectInit /\ [][ReflectNext]_vars

(* C20: every pixel with a count inside the valid range that is not the    *)
(* fill value gets a1 * (count - bias) + a0 of its own coefficients,       *)
(* whatever that value is, and every other pixel gets NaN.                 *)
C20_ReflectanceExact ==
    calOut # None =>
       /\ calOut.exc = "none"
       /\ \A i \in 1..Len(calIn.channel.nom) :
            LET c == calIn.channel
            IN  calOut.value["VIS"][i] =
                   IF ValidCount(c, i)
                   THEN Num((c.cal[i][1] * (c.nom[i] - c.cal[i][2])) + c.cal[i][3])
                   ELSE NaN

====
